---- MODULE Spec2Model ----
(***************************************************************************)
(* Model of the hardware interface robot::Robot (cpp/include/robot.hpp)    *)
(* and of its Python binding (cpp/src/robot_bindings.cpp).                 *)
(*                                                                         *)
(* Conventions                                                             *)
(*  - float quantities are fixed-point integers in units of 1e-4           *)
(*    (3.14f is 31400, 0.1745f is 1745, 8.7275f is 87275);                 *)
(*  - C++ vectors are sequences, so C++ index i is index i+1 here: the     *)
(*    wheel channels 6, 7, 14, 15 of the source are 7, 8, 15, 16;          *)
(*  - a datagram (std::string) is a sequence of tokens; the token at       *)
(*    sequence index i stands at string offset i-1, so that offset 0,      *)
(*    which the source confuses with "not found", exists in the model;     *)
(*  - an exception leaving a handler is recorded in ret.exc.               *)
(***************************************************************************)
EXTENDS Integers, Sequences, FiniteSets, TLC

VARIABLES
    pc,                        \* "constructing" | "idle" | "stopping" | "dead"
    wait_rounds,               \* rounds of _wait() already failed
    stop_rounds,               \* rounds of the estop()/sleep() loop already failed
    cli_disconn_duration_ms,   \* Robot::_cli_disconn_duration_ms
    cli_missed_req,            \* Robot::_cli_missed_req
    obs,                       \* Robot::_obs
    kp,                        \* Robot::_kp
    kd,                        \* Robot::_kd
    gains_set,                 \* Robot::_gains_set
    front_motor_pos,           \* Robot::_front_motor_pos (offset cache)
    rear_motor_pos,            \* Robot::_rear_motor_pos  (offset cache)
    ret,                       \* the running / last finished call: op, exc, why
    args,                      \* the arguments of that call
    sent,                      \* transport calls made by that call, in order
    tripped,                   \* history: a safety trip was raised or sleep invoked
    gains_ok_ever,             \* history: a set_gains call returned normally
    disconn_polls,             \* history: consecutive polls that showed a board disconnected
    rl,                        \* the rl::RL object: one field per data member
    rl_ret,                    \* the last finished call on it: op, exc, out
    rl_args,                   \* the arguments of that call
    frames,                    \* history: single frames built since the mode was
                               \* last set, most recent first
    pol,                       \* the onnxpolicy object: one field per data member
    pol_ret,                   \* the last finished call on it: op, exc, out, args, ran
    profile,                   \* the Mode object a configuration was last loaded into
    profile_ret                \* the last call on it: op, exc, out, cfg, state, run,
                               \* calls (the calls it made on the policy)

vars == <<pc, wait_rounds, stop_rounds, cli_disconn_duration_ms, cli_missed_req,
          obs, kp, kd, gains_set, front_motor_pos, rear_motor_pos, ret, args,
          sent, tripped, gains_ok_ever, disconn_polls, rl, rl_ret, rl_args, frames,
          pol, pol_ret, profile, profile_ret>>

profile_vars == <<profile, profile_ret>>

rl_vars == <<rl, rl_ret, rl_args, frames>>

pol_vars == <<pol, pol_ret>>

robot_vars == <<cli_disconn_duration_ms, cli_missed_req, obs, kp, kd, gains_set,
                front_motor_pos, rear_motor_pos>>

(***************************************************************************)
(* Program constants                                                       *)
(***************************************************************************)
last_action_len == 16
cli_disconn_timeout_ms == 200
poll_period_ms == 20
num_joints == 12
rel_max_pos == 31400
rel_min_pos == -31400
pos_offset == 0
pos_margin == 1745
vel_margin == 3491
vel_th == 87275
height_map_init == 6128
height_map_len == 144
nominal_pattern == 2
Npos == -1

motor_ids_front == <<1, 2, 3, 4, 5, 6, 7, 8>>
motor_ids_rear == <<9, 10, 11, 12, 13, 14, 15, 16>>

\* kp[6], kp[7], kp[14], kp[15] of the source
wheel_idx == {7, 8, 15, 16}

(***************************************************************************)
(* Bounds of the model                                                     *)
(***************************************************************************)
MaxWaitRounds == 2
MaxStopRounds == 2
\* disconnected polls in a row / rejected replies the boards deliver
MaxDisconnPolls == 11
MaxMissed == 11
LifeDisconnPolls == 1
LifeMissed == 1

(***************************************************************************)
(* Datagrams as token sequences                                            *)
(***************************************************************************)
Tok(k, n, q) == [k |-> k, n |-> n, q |-> q]
\* a field value: a number, text starting with 'N' ("NaN"), or other text
Num(x) == [n |-> x, q |-> "num"]
NaNText == [n |-> 0, q |-> "N"]
BadText == [n |-> 0, q |-> "bad"]

SetMin(S) == CHOOSE x \in S : \A y \in S : x <= y
SetMax(S) == CHOOSE x \in S : \A y \in S : x >= y

RECURSIVE Scan(_, _, _)
\* least index >= i of a token whose kind is in keys, 0 when there is none
Scan(s, keys, i) ==
    IF i > Len(s) THEN 0 ELSE IF s[i].k \in keys THEN i ELSE Scan(s, keys, i + 1)

RECURSIVE ScanBack(_, _, _)
\* greatest index <= i of a token whose kind is in keys, 0 when there is none
ScanBack(s, keys, i) ==
    IF i < 1 THEN 0 ELSE IF s[i].k \in keys THEN i ELSE ScanBack(s, keys, i - 1)

\* std::string::find(key, from): the kinds in keys are the tokens whose text
\* contains the searched key ("gx:" also occurs inside "pgx:")
Find(s, keys, from) ==
    LET i == Scan(s, keys, from + 1) IN IF i = 0 THEN Npos ELSE i - 1

\* std::string::rfind(key)
RFind(s, keys) ==
    LET i == ScanBack(s, keys, Len(s)) IN IF i = 0 THEN Npos ELSE i - 1

\* "M<id>" is a prefix of the text of motor token tok: "M1" is also found at
\* the start of "M10" .. "M16"
mid_matches(tok, id) ==
    /\ tok.k = "M" /\ tok.q = "num"
    /\ (tok.n = id \/ (tok.n >= 10 /\ tok.n \div 10 = id))

RECURSIVE ScanMid(_, _, _)
ScanMid(s, id, i) ==
    IF i > Len(s) THEN 0 ELSE IF mid_matches(s[i], id) THEN i ELSE ScanMid(s, id, i + 1)

\* status_str.find("M" + std::to_string(id))
FindMid(s, id) ==
    LET i == ScanMid(s, id, 1) IN IF i = 0 THEN Npos ELSE i - 1

(***************************************************************************)
(* Robot::_check_status                                                    *)
(***************************************************************************)
RECURSIVE status_motors(_, _, _)
\* the loop over ids: "conn", "disconn", or "throw" (std::stoi on text)
status_motors(status, ids, i) ==
    IF i > Len(ids) THEN "conn"
    ELSE LET pos == FindMid(status, ids[i]) IN
         IF pos = Npos THEN "disconn"
         ELSE LET pp == Find(status, {"pattern"}, pos) IN
              IF pp = Npos THEN "disconn"
              ELSE IF status[pp + 1].q # "num" THEN "throw"
              ELSE IF status[pp + 1].n # nominal_pattern THEN "disconn"
              ELSE status_motors(status, ids, i + 1)

status_emergency(status) ==
    LET e == Find(status, {"EMERGENCY"}, 0) IN
    /\ e # Npos
    /\ LET v == Find(status, {"value"}, e) IN
       v # Npos /\ status[v + 1].q = "on"

check_status(status, ids) ==
    LET m == IF Find(status, {"OK"}, 0) = Npos THEN "disconn"
             ELSE status_motors(status, ids, 1)
    IN  [threw |-> m = "throw",
         disconn |-> m = "disconn",
         emergency |-> status_emergency(status)]

(***************************************************************************)
(* Robot::_check_mcu_data                                                  *)
(***************************************************************************)
RECURSIVE ScanMotor(_, _, _)
\* greatest index <= i of the token "M<num>", 0 when there is none
ScanMotor(mcu, num, i) ==
    IF i < 1 THEN 0
    ELSE IF mcu[i].k = "M" /\ mcu[i].q = "num" /\ mcu[i].n = num THEN i
    ELSE ScanMotor(mcu, num, i - 1)

\* the scan that records, for each motor number in lo..hi, the offset of its
\* last "M<num>"; 0 when there is none
scan_motor_pos(mcu, lo, hi) ==
    [num \in 1..last_action_len |->
        LET i == ScanMotor(mcu, num, Len(mcu))
        IN  IF num < lo \/ num > hi \/ i = 0 THEN 0 ELSE i - 1]

check_mcu_data(mcu, ids) ==
    /\ Find(mcu, {"OK"}, 0) # Npos
    /\ LET motor_pos == scan_motor_pos(mcu, 1, last_action_len) IN
       \A i \in 1..Len(ids) :
          /\ ids[i] # 0 /\ ids[i] <= last_action_len
          /\ motor_pos[ids[i]] # 0
          /\ \A key \in {"p", "v", "t"} :
                LET pos == Find(mcu, {key}, motor_pos[ids[i]]) IN
                pos # Npos /\ mcu[pos + 1].q # "N"

(***************************************************************************)
(* Robot::_parse_obs, the reads                                            *)
(***************************************************************************)
\* a function on 1..n as a tuple
AsTuple(f) == f \o <<>>

\* std::stof(mcu.substr(mcu.find(key, base) + len)): when the key is not found
\* the substring starts at offset npos + 2 = 1, which is no number
stof_at(mcu, keys, base) ==
    LET pos == Find(mcu, keys, base) IN
    IF pos = Npos THEN [ok |-> FALSE, v |-> 0]
    ELSE IF mcu[pos + 1].q = "num" THEN [ok |-> TRUE, v |-> mcu[pos + 1].n]
    ELSE [ok |-> FALSE, v |-> 0]

Write(ch, i, r) == [ch |-> ch, i |-> i, r |-> r]

\* IMU keys in source order, with the token kinds whose text holds the key
imu_keys == <<<<"ang_vel", 1, {"gx", "pgx"}>>, <<"ang_vel", 2, {"gy", "pgy"}>>,
              <<"ang_vel", 3, {"gz", "pgz"}>>, <<"proj_grav", 1, {"pgx"}>>,
              <<"proj_grav", 2, {"pgy"}>>, <<"proj_grav", 3, {"pgz"}>>>>

\* the IMU block: one write for each key found after the last "IMU"
imu_writes(mcu_rear) ==
    LET imu_pos == RFind(mcu_rear, {"IMU"})
        one(e) == IF Find(mcu_rear, e[3], imu_pos) = Npos THEN <<>>
                  ELSE <<Write(e[1], e[2], stof_at(mcu_rear, e[3], imu_pos))>>
    IN  IF imu_pos = Npos THEN <<>>
        ELSE one(imu_keys[1]) \o one(imu_keys[2]) \o one(imu_keys[3])
             \o one(imu_keys[4]) \o one(imu_keys[5]) \o one(imu_keys[6])

\* what step 3 reads from the front reply with the cached offsets fpos:
\* positions of M1..M6, velocities of M1..M8
front_reads(mcu_front, fpos) ==
    [p |-> AsTuple([i \in 1..6 |-> stof_at(mcu_front, {"p"}, fpos[i])]),
     v |-> AsTuple([i \in 1..8 |-> stof_at(mcu_front, {"v"}, fpos[i])])]

\* and from the rear reply: positions of M9..M14, velocities of M9..M16, IMU
rear_reads(mcu_rear, rpos) ==
    [p |-> AsTuple([j \in 1..6 |-> stof_at(mcu_rear, {"p"}, rpos[8 + j])]),
     v |-> AsTuple([j \in 1..8 |-> stof_at(mcu_rear, {"v"}, rpos[8 + j])]),
     imu |-> imu_writes(mcu_rear)]

(***************************************************************************)
(* Robot::_check_obs                                                       *)
(***************************************************************************)
\* velocity channel of joint i: source (i < 6) ? i : i + 2, on 0-based indices
vel_index(i) == IF i <= 6 THEN i ELSE i + 2

lo_pos == rel_min_pos + pos_margin
hi_pos == rel_max_pos - pos_margin

\* a bounds test that lost its upper bound
joint_trips_no_upper(pos, vel) ==
    \/ pos < lo_pos
    \/ (pos < lo_pos + vel_margin /\ vel < -vel_th)
    \/ (pos >= hi_pos - vel_margin /\ vel > vel_th)

\* a bounds test that also trips at the shrunk bounds themselves
joint_trips_at_bounds(pos, vel) ==
    \/ pos <= lo_pos \/ pos >= hi_pos
    \/ (pos < lo_pos + vel_margin /\ vel < -vel_th)
    \/ (pos >= hi_pos - vel_margin /\ vel > vel_th)

joint_trips(pos, vel) ==
    \/ pos < lo_pos \/ pos > hi_pos
    \/ (pos < lo_pos + vel_margin /\ vel < -vel_th)
    \/ (pos >= hi_pos - vel_margin /\ vel > vel_th)

\* a _check_obs that never throws
check_obs_never(o) == FALSE

\* TRUE when _check_obs throws RobotEStopError
check_obs(o) ==
    \E i \in 1..num_joints : joint_trips(o.dof_pos[i], o.dof_vel[vel_index(i)])

(***************************************************************************)
(* Replies of the boards (grammar of the transport client)                 *)
(***************************************************************************)
OkTok == Tok("OK", 0, "")

RECURSIVE StatusBlocks(_, _)
StatusBlocks(ids, pat) ==
    IF ids = <<>> THEN <<>>
    ELSE <<Tok("M", Head(ids), "num"), Tok("pattern", pat[Head(ids)].n, pat[Head(ids)].q)>>
         \o StatusBlocks(Tail(ids), pat)

\* emg: "on", "off" or "absent"
StatusReply(ok, ids, pat, emg) ==
       (IF ok THEN <<OkTok>> ELSE <<>>)
    \o StatusBlocks(ids, pat)
    \o (IF emg = "absent" THEN <<>> ELSE <<Tok("EMERGENCY", 0, ""), Tok("value", 0, emg)>>)

AllNominal == [id \in 1..last_action_len |-> Num(nominal_pattern)]
DropId(ids, id) == SelectSeq(ids, LAMBDA x : x # id)

\* d.kind: "nominal", "nomarker", "missing" (motor d.id absent), "pattern" (motor
\* d.id reports pattern 3), "garbled" (the pattern of motor d.id is no number);
\* d.emg as above
StatusOf(ids, d) ==
    CASE d.kind = "nominal"  -> StatusReply(TRUE, ids, AllNominal, d.emg)
      [] d.kind = "nomarker" -> StatusReply(FALSE, ids, AllNominal, d.emg)
      [] d.kind = "missing"  -> StatusReply(TRUE, DropId(ids, d.id), AllNominal, d.emg)
      [] d.kind = "pattern"  -> StatusReply(TRUE, ids,
                                            [AllNominal EXCEPT ![d.id] = Num(nominal_pattern + 1)],
                                            d.emg)
      [] d.kind = "garbled"  -> StatusReply(TRUE, ids, [AllNominal EXCEPT ![d.id] = BadText],
                                            d.emg)

SD(kind, id, emg) == [kind |-> kind, id |-> id, emg |-> emg]

RECURSIVE MotorBlocks(_, _)
MotorBlocks(ids, val) ==
    IF ids = <<>> THEN <<>>
    ELSE <<Tok("M", Head(ids), "num"),
           Tok("p", val[Head(ids)].p.n, val[Head(ids)].p.q),
           Tok("v", val[Head(ids)].v.n, val[Head(ids)].v.q),
           Tok("t", 0, "num")>>
         \o MotorBlocks(Tail(ids), val)

ImuBlock(g) ==
    <<Tok("IMU", 0, ""), Tok("gx", g, "num"), Tok("gy", g, "num"), Tok("gz", g, "num"),
      Tok("pgx", g, "num"), Tok("pgy", g, "num"), Tok("pgz", g, "num")>>

\* motor id of leg joint j (1..12): front legs are M1..M6, rear legs M9..M14
motor_of_joint(j) == IF j <= 6 THEN j ELSE j + 2

\* a telemetry frame: joint f.j reads (f.p, f.v), every other motor (f.bp, f.bv)
FrameVals(f) ==
    [id \in 1..last_action_len |->
        IF id = motor_of_joint(f.j) THEN [p |-> Num(f.p), v |-> Num(f.v)]
        ELSE [p |-> Num(f.bp), v |-> Num(f.bv)]]

FrontReq(val) == <<OkTok>> \o MotorBlocks(motor_ids_front, val)
RearReq(val, g) == <<OkTok>> \o MotorBlocks(motor_ids_rear, val) \o ImuBlock(g)

Frame(j, p, v, bp, bv) == [j |-> j, p |-> p, v |-> v, bp |-> bp, bv |-> bv]

(***************************************************************************)
(* The replies the boards send in the specifications                       *)
(***************************************************************************)
NominalF == StatusOf(motor_ids_front, SD("nominal", 0, "off"))
NominalR == StatusOf(motor_ids_rear, SD("nominal", 0, "off"))
EmergencyF == StatusOf(motor_ids_front, SD("nominal", 0, "on"))
NoMarkerF == StatusOf(motor_ids_front, SD("nomarker", 0, "off"))

SafeFrame == Frame(1, 0, 0, 0, 0)
SafeFront == FrontReq(FrameVals(SafeFrame))
SafeRear == RearReq(FrameVals(SafeFrame), 1)
\* a reply without the success marker
RejectedFront == MotorBlocks(motor_ids_front, FrameVals(SafeFrame))

\* Spec
GarbledF == StatusOf(motor_ids_front, SD("garbled", 2, "off"))
LifeStatusF == {NominalF, EmergencyF, NoMarkerF, GarbledF}
LifeFrames == {SafeFrame, Frame(3, hi_pos + 1, 0, 0, 0)}
LifeReqs ==
    {<<FrontReq(FrameVals(f)), RearReq(FrameVals(f), 1)>> : f \in LifeFrames}
    \cup {<<RejectedFront, SafeRear>>}

\* SpecConn
ConnStatusF == {StatusOf(motor_ids_front, d) :
                  d \in {SD("nominal", 0, "off"), SD("nominal", 0, "absent"),
                         SD("nominal", 0, "on"), SD("nomarker", 0, "off"),
                         SD("missing", 8, "off"), SD("pattern", 3, "off")}}
ConnStatusR == {StatusOf(motor_ids_rear, d) :
                  d \in {SD("nominal", 0, "off"), SD("missing", 9, "on"),
                         SD("pattern", 16, "off")}}
ConnReqs == {<<SafeFront, SafeRear>>, <<RejectedFront, SafeRear>>}

\* SpecLimits: every joint at and around its bounds, the others in or out
LimitFrames ==
    {Frame(j, p, v, bp, 0) : j \in 1..num_joints,
                             p \in {lo_pos - 1, lo_pos, hi_pos, hi_pos + 1},
                             v \in {0, vel_th + 1},
                             bp \in {0, hi_pos + 1}}
LimitReqs == {<<FrontReq(FrameVals(f)), RearReq(FrameVals(f), 1)>> : f \in LimitFrames}

\* SpecZone: a front and a rear leg joint in and at the edges of the near-limit
\* zones, at speeds around the threshold; the other motors at rest or, for the
\* last frames, the wheels and the other legs faster than the threshold
ZoneFrames ==
    {Frame(j, p, v, 0, 0) : j \in {1, 6, 7, num_joints},
                            p \in {lo_pos, lo_pos + vel_margin - 1, lo_pos + vel_margin,
                                   hi_pos - vel_margin - 1, hi_pos - vel_margin, hi_pos},
                            v \in {0 - vel_th - 1, 0 - vel_th, vel_th, vel_th + 1}}
    \cup {Frame(j, p, 0, 0, v) : j \in {1, num_joints}, p \in {lo_pos, hi_pos},
                                 v \in {0 - vel_th - 1, vel_th + 1}}
\* the wheels (M7, M8, M15, M16) at velocity w, in the near-limit zones if
\* they had a position channel
WheelVals(f, w) ==
    [id \in 1..last_action_len |->
        IF id \in {7, 8, 15, 16} THEN [p |-> Num(f.p), v |-> Num(w)] ELSE FrameVals(f)[id]]
ZoneVals ==
    {FrameVals(f) : f \in ZoneFrames}
    \cup {WheelVals(Frame(j, p, 0, p, 0), w) :
             j \in {1}, p \in {lo_pos, hi_pos}, w \in {0 - vel_th - 1, vel_th + 1}}
ZoneReqs == {<<FrontReq(val), RearReq(val, 1)>> : val \in ZoneVals}

\* SpecParse: two frames, each well-formed, rejected, or with a field that is
\* no number
ParseVals == {FrameVals(Frame(1, 5, 1, 5, 1)), FrameVals(Frame(1, 7, 3, 7, 3))}
FrontVariants(val) ==
    {FrontReq(val),
     MotorBlocks(motor_ids_front, val),
     MotorBlocks(motor_ids_front, val) \o <<OkTok>>,
     <<OkTok>> \o MotorBlocks(DropId(motor_ids_front, 8), val),
     FrontReq([val EXCEPT ![2].p = NaNText]),
     FrontReq([val EXCEPT ![1].v = BadText])}
RearVariants(val) ==
    {RearReq(val, val[9].p.n),
     <<OkTok>> \o MotorBlocks(motor_ids_rear, val),
     MotorBlocks(motor_ids_rear, val) \o ImuBlock(val[9].p.n),
     RearReq([val EXCEPT ![9].p = BadText], val[9].p.n)}
ParseReqs == UNION {FrontVariants(val) \X RearVariants(val) : val \in ParseVals}

AllStatusF == LifeStatusF \cup ConnStatusF
AllStatusR == {NominalR} \cup ConnStatusR
AllReqs == LifeReqs \cup ConnReqs \cup LimitReqs \cup ParseReqs \cup ZoneReqs
AllFrontReqs == {m[1] : m \in AllReqs}
AllRearReqs == {m[2] : m \in AllReqs}

(***************************************************************************)
(* The parsing functions tabulated over those replies                      *)
(***************************************************************************)
\* _check_status(status_front, _motor_ids_front), (status_rear, _motor_ids_rear)
status_front_tab == [st \in AllStatusF |-> check_status(st, motor_ids_front)]
status_rear_tab == [st \in AllStatusR |-> check_status(st, motor_ids_rear)]

\* _check_mcu_data(mcu_front, _motor_ids_front), (mcu_rear, _motor_ids_rear)
mcu_front_tab == [m \in AllFrontReqs |-> check_mcu_data(m, motor_ids_front)]
mcu_rear_tab == [m \in AllRearReqs |-> check_mcu_data(m, motor_ids_rear)]

\* the scans of step 2
front_scan_tab == [m \in AllFrontReqs |-> AsTuple(scan_motor_pos(m, 1, 8))]
rear_scan_tab == [m \in AllRearReqs |-> AsTuple(scan_motor_pos(m, 9, last_action_len))]

\* the offsets the caches can hold: the scan of an accepted reply
FrontCaches == {front_scan_tab[m] : m \in {x \in AllFrontReqs : mcu_front_tab[x]}}
RearCaches == {rear_scan_tab[m] : m \in {x \in AllRearReqs : mcu_rear_tab[x]}}

(***************************************************************************)
(* Robot::_parse_obs                                                       *)
(***************************************************************************)
\* the assignments of step 3, in source order
parse_writes(fr, rr) ==
       [i \in 1..6 |-> Write("dof_pos", i, fr.p[i])]
    \o [j \in 1..6 |-> Write("dof_pos", 6 + j, rr.p[j])]
    \o [i \in 1..8 |-> Write("dof_vel", i, fr.v[i])]
    \o [j \in 1..8 |-> Write("dof_vel", 8 + j, rr.v[j])]
    \o rr.imu

\* index of the first write whose std::stof throws, Len+1 when none does
first_throw(ws) ==
    LET bad == {w \in 1..Len(ws) : ~ws[w].r.ok}
    IN  IF bad = {} THEN Len(ws) + 1 ELSE SetMin(bad)

\* the frame after the first n writes were made: write i is dof_pos[i] for
\* i <= 12, write 12+i is dof_vel[i], the IMU writes follow
apply_writes(o, ws, n) ==
    LET imu(ch, i, old) ==
            LET hit == {w \in 29..n : ws[w].ch = ch /\ ws[w].i = i}
            IN  IF hit = {} THEN old ELSE ws[SetMax(hit)].r.v
    IN  [o EXCEPT
            !.dof_pos = [i \in 1..num_joints |->
                            IF i <= n THEN ws[i].r.v + pos_offset ELSE o.dof_pos[i]],
            !.dof_vel = [i \in 1..last_action_len |->
                            IF num_joints + i <= n THEN ws[num_joints + i].r.v
                            ELSE o.dof_vel[i]],
            !.ang_vel = [i \in 1..3 |-> imu("ang_vel", i, o.ang_vel[i])],
            !.proj_grav = [i \in 1..3 |-> imu("proj_grav", i, o.proj_grav[i])]]

\* the writes of step 3 for every pair of replies and cached offsets
WriteKeys == {<<m[1], m[2], fpos, rpos>> : m \in AllReqs, fpos \in FrontCaches,
                                           rpos \in RearCaches}
writes_tab ==
    [k \in WriteKeys |->
        LET ws == parse_writes(front_reads(k[1], k[3]), rear_reads(k[2], k[4]))
        IN  [ws |-> ws, n |-> first_throw(ws)]]

\* a rejection that is not counted
stale_result_uncounted(o, missed, fcache, rcache) ==
    [obs |-> o, missed |-> missed, fpos |-> fcache, rpos |-> rcache,
     threw |-> FALSE, rejected |-> TRUE]

\* step 1: a rejected reply returns the frame as it is; _check_mcu_data has
\* counted the missed request
stale_result(o, missed, fcache, rcache) ==
    [obs |-> o, missed |-> missed + 1, fpos |-> fcache, rpos |-> rcache,
     threw |-> FALSE, rejected |-> TRUE]

\* a parser that forgives the missed requests on every accepted reply
parse_obs_resets(mcu_front, mcu_rear, o, missed, fcache, rcache) ==
    IF ~mcu_front_tab[mcu_front] \/ ~mcu_rear_tab[mcu_rear]
    THEN stale_result(o, missed, fcache, rcache)
    ELSE LET fpos == IF fcache[1] = 0 THEN front_scan_tab[mcu_front] ELSE fcache
             rpos == IF rcache[9] = 0 THEN rear_scan_tab[mcu_rear] ELSE rcache
             w == writes_tab[<<mcu_front, mcu_rear, fpos, rpos>>]
         IN  [obs |-> apply_writes(o, w.ws, w.n - 1), missed |-> 0,
              fpos |-> fpos, rpos |-> rpos, threw |-> w.n <= Len(w.ws),
              rejected |-> FALSE]

\* outcome of _parse_obs: the new members and whether std::stof threw
parse_obs(mcu_front, mcu_rear, o, missed, fcache, rcache) ==
    IF ~mcu_front_tab[mcu_front] \/ ~mcu_rear_tab[mcu_rear]
    THEN stale_result(o, missed, fcache, rcache)
    ELSE LET fpos == IF fcache[1] = 0 THEN front_scan_tab[mcu_front] ELSE fcache
             rpos == IF rcache[9] = 0 THEN rear_scan_tab[mcu_rear] ELSE rcache
             w == writes_tab[<<mcu_front, mcu_rear, fpos, rpos>>]
         IN  [obs |-> apply_writes(o, w.ws, w.n - 1), missed |-> missed,
              fpos |-> fpos, rpos |-> rpos, threw |-> w.n <= Len(w.ws),
              rejected |-> FALSE]

(***************************************************************************)
(* Robot::check_safety                                                     *)
(***************************************************************************)
NoExc == "none"
EStopError == "RobotEStopError"
SetGainsError == "RobotSetGainsError"
SleepError == "RobotSleepError"
InvalidArgument == "std::invalid_argument"

IntMax(a, b) == IF a >= b THEN a ELSE b

\* a counter that connectivity does not reset
next_duration_no_reset(dur, disconn_flag) ==
    IF ~disconn_flag THEN dur ELSE dur + poll_period_ms

\* the counter update of lines 111-112
next_duration(dur, disconn_flag) ==
    IF ~disconn_flag THEN 0 ELSE dur + poll_period_ms

\* a timeout test with > in place of >=
conn_trip_strict(emergency_flag, dur, missed) ==
    emergency_flag \/ IntMax(dur, missed * poll_period_ms) > cli_disconn_timeout_ms

\* the condition of line 114
conn_trip(emergency_flag, dur, missed) ==
    emergency_flag \/ IntMax(dur, missed * poll_period_ms) >= cli_disconn_timeout_ms

\* what check_safety does from the two status replies: the new counter and how
\* the call ends
check_safety(status_front, status_rear, dur, missed, o) ==
    LET f == status_front_tab[status_front]
        r == status_rear_tab[status_rear]
        d == next_duration(dur, f.disconn \/ r.disconn)
    IN  IF f.threw \/ r.threw
        THEN [dur |-> dur, exc |-> InvalidArgument, why |-> "stoi"]
        ELSE IF conn_trip(f.emergency \/ r.emergency, d, missed)
        THEN [dur |-> d, exc |-> EStopError, why |-> "conn_or_emergency"]
        ELSE IF check_obs(o)
        THEN [dur |-> d, exc |-> EStopError, why |-> "joint_limit"]
        ELSE [dur |-> d, exc |-> NoExc, why |-> ""]

(***************************************************************************)
(* Transport calls (FxCli) as log entries                                  *)
(***************************************************************************)
Call(b, c, a, r) == [b |-> b, c |-> c, a |-> a, r |-> r]
StatusCalls(sf, sr) == <<Call("front", "status", <<>>, sf), Call("rear", "status", <<>>, sr)>>
ReqCalls(mf, mr) == <<Call("front", "req", <<>>, mf), Call("rear", "req", <<>>, mr)>>
StopCalls(okf, okr) ==
    <<Call("front", "motor_estop", <<>>, <<okf>>), Call("rear", "motor_estop", <<>>, <<okr>>)>>
StartCalls(okf, okr) ==
    <<Call("front", "motor_start", <<>>, <<okf>>), Call("rear", "motor_start", <<>>, <<okr>>)>>

Ret(op, exc, why) == [op |-> op, exc |-> exc, why |-> why]

\* what a status reply shows of its board: no success marker, an expected motor
\* missing, or a motor whose pattern is not the nominal one
BoardDisconnected(reply, ids) ==
    \/ \A i \in 1..Len(reply) : reply[i].k # "OK"
    \/ \E x \in 1..Len(ids) :
           \A i \in 1..Len(reply) : ~(reply[i].k = "M" /\ reply[i].n = ids[x])
    \/ \E i \in 1..(Len(reply) - 1) :
           /\ reply[i].k = "M" /\ reply[i + 1].k = "pattern"
           /\ reply[i + 1].n # nominal_pattern

PollDisconnected(status_front, status_rear) ==
    \/ BoardDisconnected(status_front, motor_ids_front)
    \/ BoardDisconnected(status_rear, motor_ids_rear)

\* the history of consecutive disconnected polls after one more poll; a poll that
\* ended in std::invalid_argument is not counted
polls_after(n, status_front, status_rear, exc) ==
    IF exc = InvalidArgument THEN n
    ELSE IF PollDisconnected(status_front, status_rear) THEN n + 1 ELSE 0
IsTrip(r) == r.exc = EStopError /\ r.why \in {"conn_or_emergency", "joint_limit"}
HasCmd(log, c) == \E i \in 1..Len(log) : log[i].c = c

(***************************************************************************)
(* Robot::Robot and Robot::_wait                                           *)
(***************************************************************************)
Zeros(n) == [i \in 1..n |-> 0]

(***************************************************************************)
(* rl::RL::RL                                                              *)
(***************************************************************************)
NoMode == [id |-> Npos]
NoPolicy == "none"
EmptyMap == [k \in {} |-> <<>>]

\* obs_to_length_ after construction; "command" is added by set_mode
obs_to_length_init ==
    [k \in {"dof_pos", "dof_vel", "lin_vel", "ang_vel", "proj_grav", "last_action",
            "height_map"} |->
        CASE k = "dof_pos" -> 12
          [] k = "dof_vel" -> 16
          [] k = "lin_vel" -> 3
          [] k = "ang_vel" -> 3
          [] k = "proj_grav" -> 3
          [] k = "last_action" -> 16
          [] k = "height_map" -> 144]

RLNew ==
    [obs_to_length_ |-> obs_to_length_init,
     mode_ |-> NoMode,
     modes_ |-> <<>>,
     single_frame_ |-> <<>>,
     single_frame_len_ |-> 0,
     state_ |-> <<>>,
     last_action_ |-> Zeros(obs_to_length_init["last_action"]),
     scaled_action_ |-> Zeros(obs_to_length_init["last_action"]),
     cached_policy_ |-> NoPolicy,
     cached_action_scale_ |-> <<>>,
     last_action_len_ |-> obs_to_length_init["last_action"],
     cached_stacked_order_ |-> <<>>,
     cached_non_stacked_order_ |-> <<>>,
     cached_stack_size_ |-> 1,
     cached_cmd_scale_ |-> <<>>,
     cached_obs_scale_map_ |-> EmptyMap]

\* no policy object has been constructed
NoObject == [kind |-> "none"]

Init ==
    /\ pc = "constructing"
    /\ wait_rounds = 0
    /\ stop_rounds = 0
    /\ cli_disconn_duration_ms = 0
    /\ cli_missed_req = 0
    /\ obs = [dof_pos |-> Zeros(num_joints), dof_vel |-> Zeros(last_action_len),
              ang_vel |-> Zeros(3), proj_grav |-> Zeros(3),
              last_action |-> Zeros(last_action_len), lin_vel |-> Zeros(3),
              height_map |-> [i \in 1..height_map_len |-> height_map_init]]
    /\ kp = Zeros(last_action_len)
    /\ kd = Zeros(last_action_len)
    /\ gains_set = FALSE
    /\ front_motor_pos = Zeros(last_action_len)
    /\ rear_motor_pos = Zeros(last_action_len)
    /\ ret = Ret("Robot", "running", "")
    /\ args = <<>>
    /\ sent = <<>>
    /\ tripped = FALSE
    /\ gains_ok_ever = FALSE
    /\ disconn_polls = 0
    /\ rl = RLNew
    /\ rl_ret = [op |-> "RL", exc |-> NoExc, out |-> <<>>, calls |-> <<>>]
    /\ pol = NoObject
    /\ pol_ret = [op |-> "none", exc |-> NoExc, out |-> <<>>, args |-> <<>>, ran |-> <<>>]
    /\ rl_args = <<>>
    /\ frames = <<>>
    /\ profile = NoObject
    /\ profile_ret = [op |-> "none", exc |-> NoExc, out |-> <<>>, cfg |-> NoObject,
                      state |-> <<>>, run |-> [ok |-> FALSE, outs |-> <<>>],
                      calls |-> <<>>]

\* a wait that does not look at the emergency flag
wait_retry_ignores_emergency(polled, f, r) ==
    ~polled \/ f.disconn \/ r.disconn

\* the two `continue` conditions of the while loop of _wait (lines 224, 233)
wait_retry(polled, f, r) ==
    ~polled \/ f.disconn \/ r.disconn \/ f.emergency \/ r.emergency

\* one iteration of the while loop of _wait
WaitRound(started_f, started_r, status_front, status_rear) ==
    /\ pc = "constructing"
    /\ \E f \in {status_front_tab[status_front]},
          r \in {status_rear_tab[status_rear]},
          polled \in {started_f /\ started_r} :
       \E retry \in {wait_retry(polled, f, r)} :
           /\ sent' = sent \o StartCalls(started_f, started_r)
                           \o (IF polled THEN StatusCalls(status_front, status_rear) ELSE <<>>)
           /\ IF polled /\ (f.threw \/ r.threw)
              THEN /\ pc' = "dead"
                   /\ ret' = Ret("Robot", InvalidArgument, "stoi")
                   /\ wait_rounds' = 0
              ELSE IF retry
              THEN /\ wait_rounds < MaxWaitRounds
                   /\ wait_rounds' = wait_rounds + 1
                   /\ UNCHANGED <<pc, ret>>
              ELSE /\ pc' = "idle"
                   /\ ret' = Ret("Robot", NoExc, "")
                   /\ wait_rounds' = 0
    /\ UNCHANGED <<profile_vars, pol_vars, rl_vars, stop_rounds, robot_vars, args, tripped, gains_ok_ever, disconn_polls>>

\* the deadline of _wait passes: throw RobotEStopError("Motor start timeout")
WaitTimeout ==
    /\ pc = "constructing"
    /\ wait_rounds >= 1
    /\ pc' = "dead"
    /\ ret' = Ret("Robot", EStopError, "start_timeout")
    /\ wait_rounds' = 0
    /\ UNCHANGED <<profile_vars, pol_vars, rl_vars, stop_rounds, robot_vars, args, sent, tripped, gains_ok_ever, disconn_polls>>

(***************************************************************************)
(* Robot::set_gains                                                        *)
(***************************************************************************)
\* a set_gains that does not look at the last wheel index
set_gains_rejects_no_last_wheel(kp_in, kd_in) ==
    \/ Len(kp_in) # last_action_len
    \/ Len(kd_in) # last_action_len
    \/ kp_in[7] # 0 \/ kp_in[8] # 0
    \/ kp_in[15] # 0
    \/ \E i \in 1..Len(kp_in) : kp_in[i] < 0
    \/ \E i \in 1..Len(kd_in) : kd_in[i] < 0

\* TRUE when set_gains throws RobotSetGainsError
set_gains_rejects(kp_in, kd_in) ==
    \/ Len(kp_in) # last_action_len
    \/ Len(kd_in) # last_action_len
    \/ kp_in[7] # 0 \/ kp_in[8] # 0
    \/ kp_in[15] # 0 \/ kp_in[16] # 0
    \/ \E i \in 1..Len(kp_in) : kp_in[i] < 0
    \/ \E i \in 1..Len(kd_in) : kd_in[i] < 0

SetGains(kp_in, kd_in) ==
    /\ pc = "idle"
    /\ IF set_gains_rejects(kp_in, kd_in)
       THEN /\ ret' = Ret("set_gains", SetGainsError, "gains")
            /\ UNCHANGED <<kp, kd, gains_set, gains_ok_ever>>
       ELSE /\ ret' = Ret("set_gains", NoExc, "")
            /\ gains_ok_ever' = TRUE
            /\ kp' = kp_in
            /\ kd' = kd_in
            /\ gains_set' = TRUE
    /\ args' = <<kp_in, kd_in>>
    /\ sent' = <<>>
    /\ UNCHANGED <<profile_vars, pol_vars, rl_vars, pc, wait_rounds, stop_rounds, cli_disconn_duration_ms, cli_missed_req,
                   obs, front_motor_pos, rear_motor_pos, tripped, disconn_polls>>

(***************************************************************************)
(* Robot::check_safety as an operation                                     *)
(***************************************************************************)
CheckSafety(status_front, status_rear) ==
    /\ pc = "idle"
    /\ \E out \in {check_safety(status_front, status_rear, cli_disconn_duration_ms,
                                cli_missed_req, obs)} :
           /\ cli_disconn_duration_ms' = out.dur
           /\ ret' = Ret("check_safety", out.exc, out.why)
           /\ tripped' = (tripped \/ out.exc = EStopError)
           /\ disconn_polls' = polls_after(disconn_polls, status_front, status_rear, out.exc)
    /\ args' = <<>>
    /\ sent' = StatusCalls(status_front, status_rear)
    /\ UNCHANGED <<profile_vars, pol_vars, rl_vars, pc, wait_rounds, stop_rounds, cli_missed_req, obs, kp, kd, gains_set,
                   front_motor_pos, rear_motor_pos, gains_ok_ever>>

(***************************************************************************)
(* Robot::get_obs                                                          *)
(***************************************************************************)
GetObs(mcu_front, mcu_rear) ==
    /\ pc = "idle"
    /\ \E out \in {parse_obs(mcu_front, mcu_rear, obs, cli_missed_req,
                             front_motor_pos, rear_motor_pos)} :
           /\ obs' = out.obs
           /\ cli_missed_req' = out.missed
           /\ front_motor_pos' = out.fpos
           /\ rear_motor_pos' = out.rpos
           /\ ret' = IF out.threw THEN Ret("get_obs", InvalidArgument, "stof")
                     ELSE Ret("get_obs", NoExc, IF out.rejected THEN "stale" ELSE "")
    /\ args' = <<>>
    /\ sent' = ReqCalls(mcu_front, mcu_rear)
    /\ UNCHANGED <<profile_vars, pol_vars, rl_vars, pc, wait_rounds, stop_rounds, cli_disconn_duration_ms, kp, kd, gains_set,
                   tripped, gains_ok_ever, disconn_polls>>

(***************************************************************************)
(* Robot::do_action, with the check of the binding in front of it          *)
(***************************************************************************)
\* C++ (i < 6) || (i >= 8 && i < 14), on 1-based indices
is_pos_idx(i) == i <= 6 \/ (i >= 9 /\ i <= 14)

\* a mapping that treats the wheel channels as position channels
command_all_position(action, torque_ctrl, kp_cur, kd_cur) ==
    IF torque_ctrl
    THEN [pos |-> Zeros(last_action_len), vel |-> Zeros(last_action_len),
          kp |-> Zeros(last_action_len), kd |-> Zeros(last_action_len), tau |-> action]
    ELSE [pos |-> [i \in 1..last_action_len |-> action[i] - pos_offset],
          vel |-> Zeros(last_action_len),
          kp |-> [i \in 1..last_action_len |-> kp_cur[i]],
          kd |-> [i \in 1..last_action_len |-> kd_cur[i]],
          tau |-> Zeros(last_action_len)]

\* a torque mode that keeps sending the stored gains
command_torque_with_gains(action, torque_ctrl, kp_cur, kd_cur) ==
    IF torque_ctrl
    THEN [pos |-> Zeros(last_action_len), vel |-> Zeros(last_action_len),
          kp |-> [i \in 1..last_action_len |-> kp_cur[i]],
          kd |-> [i \in 1..last_action_len |-> kd_cur[i]], tau |-> action]
    ELSE [pos |-> [i \in 1..last_action_len |->
                      IF i <= 6 \/ (i >= 9 /\ i <= 14) THEN action[i] - pos_offset ELSE 0],
          vel |-> [i \in 1..last_action_len |->
                      IF i <= 6 \/ (i >= 9 /\ i <= 14) THEN 0 ELSE action[i]],
          kp |-> [i \in 1..last_action_len |-> kp_cur[i]],
          kd |-> [i \in 1..last_action_len |-> kd_cur[i]],
          tau |-> Zeros(last_action_len)]

\* the five vectors do_action builds
command(action, torque_ctrl, kp_cur, kd_cur) ==
    IF torque_ctrl
    THEN [pos |-> Zeros(last_action_len), vel |-> Zeros(last_action_len),
          kp |-> Zeros(last_action_len), kd |-> Zeros(last_action_len), tau |-> action]
    ELSE [pos |-> [i \in 1..last_action_len |->
                      IF is_pos_idx(i) THEN action[i] - pos_offset ELSE 0],
          vel |-> [i \in 1..last_action_len |->
                      IF is_pos_idx(i) THEN 0 ELSE action[i]],
          kp |-> [i \in 1..last_action_len |-> kp_cur[i]],
          kd |-> [i \in 1..last_action_len |-> kd_cur[i]],
          tau |-> Zeros(last_action_len)]

\* std::vector<float>(v.begin()+s, v.begin()+e)
slice(v, s, e) == SubSeq(v, s + 1, e)

OpCalls(cmd) ==
    <<Call("front", "operation_control",
           <<slice(cmd.pos, 0, 8), slice(cmd.vel, 0, 8), slice(cmd.kp, 0, 8),
             slice(cmd.kd, 0, 8), slice(cmd.tau, 0, 8)>>, <<>>),
      Call("rear", "operation_control",
           <<slice(cmd.pos, 8, 16), slice(cmd.vel, 8, 16), slice(cmd.kp, 8, 16),
             slice(cmd.kd, 8, 16), slice(cmd.tau, 8, 16)>>, <<>>)>>

\* a do_action without the guard on the gains
gains_missing_never(flag) == FALSE

\* a do_action that returns without looking at the boards again
do_action_no_recheck(status_front, status_rear, dur, missed, o) ==
    [dur |-> dur, exc |-> NoExc, why |-> ""]

\* the check_safety() call that ends do_action (line 185)
do_action_recheck(status_front, status_rear, dur, missed, o) ==
    check_safety(status_front, status_rear, dur, missed, o)

\* do_action's guard on the gains (lines 130-131)
gains_missing(flag) == ~flag

\* entering the retry loop of estop() / sleep()
EnterStop(op, why, a) ==
    /\ pc' = "stopping"
    /\ ret' = Ret(op, "running", why)
    /\ args' = a
    /\ sent' = <<>>
    /\ tripped' = TRUE
    /\ UNCHANGED <<profile_vars, pol_vars, rl_vars, wait_rounds, stop_rounds, robot_vars, gains_ok_ever, disconn_polls>>

DoAction(action, nested, torque_ctrl, status_front, status_rear) ==
    /\ pc = "idle"
    /\ IF nested
       THEN EnterStop("do_action", "usage", <<action, nested, torque_ctrl>>)
       ELSE IF gains_missing(gains_set)
       THEN /\ ret' = Ret("do_action", SetGainsError, "gains")
            /\ args' = <<action, nested, torque_ctrl>>
            /\ sent' = <<>>
            /\ UNCHANGED <<profile_vars, pol_vars, rl_vars, pc, wait_rounds, stop_rounds, robot_vars, tripped, gains_ok_ever, disconn_polls>>
       ELSE IF Len(action) # last_action_len
       THEN EnterStop("do_action", "usage", <<action, nested, torque_ctrl>>)
       ELSE \E o \in {[obs EXCEPT !.last_action = action]} :
            \E out \in {do_action_recheck(status_front, status_rear,
                                          cli_disconn_duration_ms, cli_missed_req, o)} :
                /\ args' = <<action, nested, torque_ctrl>>
                /\ sent' = OpCalls(command(action, torque_ctrl, kp, kd))
                              \o StatusCalls(status_front, status_rear)
                /\ disconn_polls' = polls_after(disconn_polls, status_front, status_rear,
                                                 out.exc)
                /\ obs' = o
                /\ cli_disconn_duration_ms' = out.dur
                /\ ret' = Ret("do_action", out.exc, out.why)
                /\ tripped' = (tripped \/ out.exc = EStopError)
                /\ UNCHANGED <<profile_vars, pol_vars, rl_vars, pc, wait_rounds, stop_rounds, cli_missed_req, kp, kd,
                               gains_set, front_motor_pos, rear_motor_pos, gains_ok_ever>>

(***************************************************************************)
(* Robot::estop and Robot::sleep                                           *)
(***************************************************************************)
Estop ==
    /\ pc = "idle"
    /\ EnterStop("estop", "estop", <<>>)

Sleep ==
    /\ pc = "idle"
    /\ EnterStop("sleep", "sleep", <<>>)

\* one iteration of the for (;;) loop
\* a loop that leaves as soon as one board acknowledged
stop_done_either(ok_f, ok_r) == ok_f \/ ok_r

\* `if (ok_f && ok_r) break;`
stop_done(ok_f, ok_r) == ok_f /\ ok_r

\* one iteration of the for (;;) loop of estop / sleep
StopRound(ok_f, ok_r) ==
    /\ pc = "stopping"
    /\ sent' = sent \o StopCalls(ok_f, ok_r)
    /\ IF stop_done(ok_f, ok_r)
       THEN /\ pc' = "idle"
            /\ ret' = Ret(ret.op, IF ret.op = "sleep" THEN SleepError ELSE EStopError, ret.why)
            /\ stop_rounds' = 0
       ELSE /\ stop_rounds < MaxStopRounds
            /\ stop_rounds' = stop_rounds + 1
            /\ UNCHANGED <<pc, ret>>
    /\ UNCHANGED <<profile_vars, pol_vars, rl_vars, wait_rounds, robot_vars, args, tripped, gains_ok_ever, disconn_polls>>

(***************************************************************************)
(* Environment shared by the specifications                                *)
(***************************************************************************)
GoodKp == [i \in 1..last_action_len |-> IF i \in wheel_idx THEN 0 ELSE 1]
GoodKd == [i \in 1..last_action_len |-> 1]
Ones(n) == [i \in 1..n |-> 1]

\* the boards deliver at most polls disconnected polls in a row and at most
\* missed rejected replies
Env(polls, missed) ==
    /\ cli_disconn_duration_ms' <= polls * poll_period_ms
    /\ cli_missed_req' <= missed

Construct ==
    \E sf \in BOOLEAN, sr \in BOOLEAN, st \in {NominalF, EmergencyF, NoMarkerF, GarbledF} :
        WaitRound(sf, sr, st, NominalR)

StopLoop == \E okf \in BOOLEAN, okr \in BOOLEAN : StopRound(okf, okr)

(***************************************************************************)
(* Specification Spec: the life cycle of one Robot, every operation        *)
(***************************************************************************)
LifeKp == {GoodKp, Ones(last_action_len)}
\* action, nested, torque_ctrl
LifeDoArgs == {<<Ones(last_action_len), FALSE, FALSE>>,
               <<Ones(last_action_len), FALSE, TRUE>>,
               <<Ones(last_action_len), TRUE, FALSE>>,
               <<Ones(last_action_len - 1), FALSE, FALSE>>}

LifeSetGains == \E a \in LifeKp : SetGains(a, GoodKd)
LifeCheckSafety ==
    \E sf \in LifeStatusF : CheckSafety(sf, NominalR) /\ Env(LifeDisconnPolls, LifeMissed)
LifeGetObs ==
    \E m \in LifeReqs : GetObs(m[1], m[2]) /\ Env(LifeDisconnPolls, LifeMissed)
LifeDoAction ==
    \E a \in LifeDoArgs, sf \in LifeStatusF :
        DoAction(a[1], a[2], a[3], sf, NominalR) /\ Env(LifeDisconnPolls, LifeMissed)

Next ==
    \/ Construct
    \/ WaitTimeout
    \/ LifeSetGains
    \/ LifeCheckSafety
    \/ LifeGetObs
    \/ LifeDoAction
    \/ Estop
    \/ Sleep
    \/ StopLoop

Spec == Init /\ [][Next]_vars

\* the boards eventually acknowledge a stop in the same round
SpecFair == Spec /\ WF_vars(StopRound(TRUE, TRUE))

(***************************************************************************)
(* Specification SpecConn: connectivity and emergency, counters up to the  *)
(* timeout                                                                 *)
(***************************************************************************)
ConnCheckSafety ==
    \E sf \in ConnStatusF, sr \in ConnStatusR :
        CheckSafety(sf, sr) /\ Env(MaxDisconnPolls, MaxMissed)
ConnGetObs ==
    \E m \in ConnReqs : GetObs(m[1], m[2]) /\ Env(MaxDisconnPolls, MaxMissed)
NextConn ==
    \/ Construct
    \/ WaitTimeout
    \/ ConnCheckSafety
    \/ ConnGetObs

SpecConn == Init /\ [][NextConn]_vars

(***************************************************************************)
(* Specification SpecLimits: joint limits                                  *)
(***************************************************************************)
LimGetObs ==
    \E m \in LimitReqs : GetObs(m[1], m[2]) /\ Env(LifeDisconnPolls, LifeMissed)
LimCheckSafety ==
    \E sf \in {NominalF, EmergencyF} :
        CheckSafety(sf, NominalR) /\ Env(LifeDisconnPolls, LifeMissed)
NextLimits ==
    \/ Construct
    \/ WaitTimeout
    \/ LimGetObs
    \/ LimCheckSafety

SpecLimits == Init /\ [][NextLimits]_vars

(***************************************************************************)
(* Specification SpecParse: get_obs on well-formed and malformed replies   *)
(***************************************************************************)
ParseGetObs ==
    \E m \in ParseReqs : GetObs(m[1], m[2]) /\ Env(LifeDisconnPolls, LifeMissed)
ParseCheckSafety == CheckSafety(NominalF, NominalR)

NextParse ==
    \/ Construct
    \/ WaitTimeout
    \/ ParseGetObs
    \/ ParseCheckSafety

SpecParse == Init /\ [][NextParse]_vars

(***************************************************************************)
(* Specification SpecGains: set_gains on valid and invalid vectors         *)
(***************************************************************************)
\* kp of length n whose element e is x, zero at the other wheel indices and b
\* elsewhere
KpIn(n, e, x, b) ==
    [i \in 1..n |-> IF i = e THEN x ELSE IF i \in wheel_idx THEN 0 ELSE b]
GainsKp ==
    {KpIn(last_action_len, e, x, b) : e \in {1, 7, 8, 15, 16}, x \in {-1, 0, 2}, b \in {0, 1}}
    \cup {KpIn(n, 1, 1, 1) : n \in {last_action_len - 1, last_action_len + 1}}
GainsKd == {GoodKd, Ones(last_action_len - 1), [GoodKd EXCEPT ![7] = -1],
            [GoodKd EXCEPT ![16] = 0]}

GainsSetGains == \E a \in GainsKp, b \in GainsKd : SetGains(a, b)

NextGains ==
    \/ Construct
    \/ WaitTimeout
    \/ GainsSetGains

SpecGains == Init /\ [][NextGains]_vars

(* Actuation: gains and actions whose elements are all different *)
ActKp == [i \in 1..last_action_len |-> IF i \in wheel_idx THEN 0 ELSE i]
ActKd == [i \in 1..last_action_len |-> last_action_len + i]
Ramp == [i \in 1..last_action_len |-> 10 * last_action_len + i]
ActStatusF == {NominalF, EmergencyF, NoMarkerF}

ActSetGains == \E a \in {ActKp, GoodKp} : SetGains(a, ActKd)
ActGetObs ==
    \E m \in LifeReqs : GetObs(m[1], m[2]) /\ Env(MaxDisconnPolls, LifeMissed)
ActDoAction ==
    \E a \in {Ramp, Ones(last_action_len)}, t \in BOOLEAN, sf \in ActStatusF :
        DoAction(a, FALSE, t, sf, NominalR) /\ Env(MaxDisconnPolls, LifeMissed)

NextAct ==
    \/ Construct
    \/ WaitTimeout
    \/ ActSetGains
    \/ ActGetObs
    \/ ActDoAction

SpecAct == Init /\ [][NextAct]_vars

(***************************************************************************)
(* Joint limits                                                            *)
(***************************************************************************)
OutOfBounds(pos) == pos < lo_pos \/ pos > hi_pos

NearLimitMovingIn(pos, vel) ==
    \/ (pos < lo_pos + vel_margin /\ vel < -vel_th)
    \/ (pos >= hi_pos - vel_margin /\ vel > vel_th)

\* some leg joint of frame o is outside the shrunk bounds, or near a bound and
\* moving towards it faster than the threshold
UnsafeFrame(o) ==
    \E j \in 1..num_joints :
        \/ OutOfBounds(o.dof_pos[j])
        \/ NearLimitMovingIn(o.dof_pos[j], o.dof_vel[vel_index(j)])

\* C1: for every leg joint, a check_safety call that did not end on the
\* emergency/timeout trip raises the joint-limit trip whenever the joint's
\* last-known position is outside [min + margin, max - margin], whatever its
\* velocity and whatever the other joints read.
C1_OutOfBoundsTrips ==
    \A j \in 1..num_joints :
        (/\ ret.op = "check_safety"
         /\ ret.why # "conn_or_emergency"
         /\ ret.exc # InvalidArgument
         /\ OutOfBounds(obs.dof_pos[j]))
        => (ret.exc = EStopError /\ ret.why = "joint_limit")

\* the last joint just above its upper bound, at rest, every other joint in
\* range: check_safety ended with the joint-limit trip
C1_Witness ==
    /\ ret.op = "check_safety" /\ ret.exc = EStopError /\ ret.why = "joint_limit"
    /\ obs.dof_pos[num_joints] = hi_pos + 1
    /\ obs.dof_vel[vel_index(num_joints)] = 0
    /\ \A j \in 1..(num_joints - 1) : obs.dof_pos[j] = 0

StopAcked(log) ==
    \E i \in 1..(Len(log) - 1) :
        /\ log[i].c = "motor_estop" /\ log[i].b = "front" /\ log[i].r = <<TRUE>>
        /\ log[i + 1].c = "motor_estop" /\ log[i + 1].b = "rear" /\ log[i + 1].r = <<TRUE>>

\* C3 as stated: whenever check_safety, or the re-check inside do_action,
\* raises a safety trip (connection timeout, emergency flag or joint limit), the
\* call has sent an emergency stop that both boards acknowledged before the
\* error is raised.
C3_StopBeforeTrip ==
    (ret.op \in {"check_safety", "do_action"} /\ IsTrip(ret)) => StopAcked(sent)

\* C4 as stated: once a safety trip was raised or sleep was invoked, every later
\* check_safety and do_action call fails and no operation_control command is
\* transmitted any more, whatever the boards report afterwards.
C4_TripIsTerminal ==
    [][tripped => /\ (ret'.op \in {"check_safety", "do_action"} => ret'.exc # NoExc)
                  /\ ~HasCmd(sent', "operation_control")]_vars

(***************************************************************************)
(* Connectivity and emergency                                              *)
(***************************************************************************)
\* the status reply carries the emergency flag with the value on
EmergencyOn(reply) ==
    \E i \in 1..(Len(reply) - 1) :
        reply[i].k = "EMERGENCY" /\ reply[i + 1].k = "value" /\ reply[i + 1].q = "on"

PollEmergency(log) == EmergencyOn(log[1].r) \/ EmergencyOn(log[2].r)

ConnTripped(r) == r.exc = EStopError /\ r.why = "conn_or_emergency"

\* C5: with the counter updated, check_safety raises its connection/emergency
\* trip exactly when a board reports the emergency flag on, or the
\* disconnection duration or 20 ms x the missed requests has reached 200 ms;
\* with no missed request and no emergency that is at the 10th consecutive
\* disconnected poll and at no earlier one.
C5_ConnTripExactly ==
    ret.op = "check_safety" =>
        /\ ConnTripped(ret) <=>
              \/ PollEmergency(sent)
              \/ cli_disconn_duration_ms >= 200
              \/ cli_missed_req * 20 >= 200
        /\ (cli_missed_req = 0 /\ ~PollEmergency(sent)) =>
              (ConnTripped(ret) <=> disconn_polls >= 10)

\* the 10th consecutive disconnected poll, nothing missed, no emergency: the
\* call tripped
C5_Witness ==
    /\ ret.op = "check_safety" /\ ConnTripped(ret)
    /\ disconn_polls = 10 /\ cli_disconn_duration_ms = cli_disconn_timeout_ms
    /\ cli_missed_req = 0 /\ ~PollEmergency(sent)

PollRejected(log) == ~mcu_front_tab[log[1].r] \/ ~mcu_rear_tab[log[2].r]

\* C7: when the reply of either board is rejected, get_obs does not raise,
\* leaves every channel of the frame as it was, and counts one missed request.
C7_RejectedKeepsFrame ==
    [][(ret'.op = "get_obs" /\ PollRejected(sent')) =>
          /\ ret'.exc = NoExc
          /\ obs' = obs
          /\ cli_missed_req' = cli_missed_req + 1]_vars

\* a rejected reply after a good one: the frame of the good one is retained
C7_Witness ==
    /\ ret.op = "get_obs" /\ ret.exc = NoExc /\ PollRejected(sent)
    /\ cli_missed_req = 1
    /\ obs.dof_pos[1] # 0 /\ obs.dof_vel[1] # 0

\* the numbers a reply carries for field number off of motor id
FieldOf(reply, id, off) ==
    {reply[i + off].n : i \in {x \in 1..(Len(reply) - off) :
                                 /\ reply[x].k = "M" /\ reply[x].n = id
                                 /\ reply[x + off].q = "num"}}
\* and for the inertial key k
ImuOf(reply, k) ==
    {reply[i].n : i \in {x \in 1..Len(reply) : reply[x].k = k /\ reply[x].q = "num"}}

\* every reading of frame o is the one the replies of the call carry (the
\* inertial channels when the rear reply has the block)
AllNew(o, log) ==
    /\ \A j \in 1..num_joints :
          o.dof_pos[j] - pos_offset
             \in FieldOf(log[IF j <= 6 THEN 1 ELSE 2].r, motor_of_joint(j), 1)
    /\ \A i \in 1..last_action_len :
          o.dof_vel[i] \in FieldOf(log[IF i <= 8 THEN 1 ELSE 2].r, i, 2)
    /\ (\E x \in 1..Len(log[2].r) : log[2].r[x].k = "IMU") =>
          /\ o.ang_vel[1] \in ImuOf(log[2].r, "gx")
          /\ o.ang_vel[2] \in ImuOf(log[2].r, "gy")
          /\ o.ang_vel[3] \in ImuOf(log[2].r, "gz")
          /\ o.proj_grav[1] \in ImuOf(log[2].r, "pgx")
          /\ o.proj_grav[2] \in ImuOf(log[2].r, "pgy")
          /\ o.proj_grav[3] \in ImuOf(log[2].r, "pgz")

\* C8 as stated: after get_obs ends, normally or by exception, the frame
\* either equals the frame before the call in every channel or has all of
\* dof_pos, dof_vel and the inertial channels from the new replies.
C8_NeverPartial ==
    [][ret'.op = "get_obs" => (obs' = obs \/ AllNew(obs', sent'))]_vars

ValidGains(kp_in, kd_in) ==
    /\ Len(kp_in) = 16 /\ Len(kd_in) = 16
    /\ \A w \in {6, 7, 14, 15} : kp_in[w + 1] = 0
    /\ \A i \in 1..16 : kp_in[i] >= 0 /\ kd_in[i] >= 0

\* C10: set_gains(kp, kd) succeeds exactly when both vectors have length 16,
\* kp is zero at the wheel indices 6, 7, 14, 15 and no element of kp or kd is
\* negative; on success the vectors are stored and the flag is set, on failure
\* the stored kp, kd and the flag are unchanged.
C10_SetGainsExactly ==
    [][ret'.op = "set_gains" =>
          IF ValidGains(args'[1], args'[2])
          THEN ret'.exc = NoExc /\ kp' = args'[1] /\ kd' = args'[2] /\ gains_set'
          ELSE ret'.exc = SetGainsError /\ UNCHANGED <<kp, kd, gains_set>>]_vars

\* a kp of full length, non-negative, with a non-zero last wheel entry, rejected
\* after an earlier success: the stored gains are the earlier ones
C10_Witness ==
    /\ ret.op = "set_gains" /\ ret.exc = SetGainsError
    /\ Len(args[1]) = last_action_len /\ args[1][last_action_len] > 0
    /\ \A i \in 1..(last_action_len - 1) : args[1][i] = 0
    /\ args[2] = GoodKd
    /\ gains_set /\ kp # args[1]

(***************************************************************************)
(* Usage errors of do_action                                               *)
(***************************************************************************)
\* the call is a usage error: nested action, gains unset, or wrong length
UsageError(a, gains_flag) ==
    a[2] \/ ~gains_flag \/ Len(a[1]) # 16

\* C11 as stated: a do_action call that is a usage error (gains unset, action
\* length other than 16, nested action) is rejected before any hardware side
\* effect: nothing is sent to either board and the observation frame is
\* unchanged.
C11_UsageNoSideEffect ==
    [][(ret'.op = "do_action" /\ UsageError(args', gains_set')) =>
          (sent' = <<>> /\ obs' = obs)]_vars


(* Command mapping of do_action *)
\* the board that receives channel i (0-based) and the channel's place in its call
BoardCall(log, i) == log[IF i <= 7 THEN 1 ELSE 2]
Place(i) == (i % 8) + 1
Transmitted(log) ==
    /\ Len(log) >= 2
    /\ log[1].b = "front" /\ log[1].c = "operation_control"
    /\ log[2].b = "rear" /\ log[2].c = "operation_control"
    /\ \A n \in 1..2, v \in 1..5 : Len(log[n].a[v]) = 8

\* C12: with torque control unset, every transmitted do_action sends, for leg
\* channels (0-5, 8-13), position = action element plus the joint's offset and
\* velocity 0; for wheel channels (6, 7, 14, 15), velocity = action element and
\* position 0; every channel carries its stored kp and kd and torque 0; channels
\* 0-7 go to the front board and 8-15 to the rear board.
\* (The source subtracts the offset, line 156; the offset table is 0.0 for every
\* joint, lines 50-58, and nothing writes it, so the program has no state in
\* which the sign can be observed.)
C12_PositionVelocityTargets ==
    (ret.op = "do_action" /\ HasCmd(sent, "operation_control") /\ ~args[3]) =>
        /\ Transmitted(sent)
        /\ \A i \in 0..15 :
              LET call == BoardCall(sent, i)
                  k == Place(i)
                  a == args[1][i + 1]
                  wheel == i \in {6, 7, 14, 15}
              IN  /\ call.a[1][k] = IF wheel THEN 0 ELSE a + pos_offset
                  /\ call.a[2][k] = IF wheel THEN a ELSE 0
                  /\ call.a[3][k] = kp[i + 1]
                  /\ call.a[4][k] = kd[i + 1]
                  /\ call.a[5][k] = 0

C12_Witness ==
    /\ ret.op = "do_action" /\ ret.exc = NoExc /\ ~args[3]
    /\ args[1] = Ramp /\ kp = ActKp /\ kd = ActKd
    /\ Transmitted(sent)
    /\ sent[2].a[2][7] = Ramp[15]

\* C13: with torque control set, every transmitted do_action sends the action
\* as the torque vector, element for element, and position, velocity, kp and kd
\* all zero to both boards, whatever gains are stored.
C13_TorqueTargets ==
    (ret.op = "do_action" /\ HasCmd(sent, "operation_control") /\ args[3]) =>
        /\ Transmitted(sent)
        /\ \A i \in 0..15 :
              LET call == BoardCall(sent, i)
                  k == Place(i)
              IN  /\ call.a[5][k] = args[1][i + 1]
                  /\ \A v \in 1..4 : call.a[v][k] = 0

C13_Witness ==
    /\ ret.op = "do_action" /\ ret.exc = NoExc /\ args[3]
    /\ args[1] = Ramp /\ kp = ActKp /\ kd = ActKd
    /\ Transmitted(sent)
    /\ sent[2].a[5][8] = Ramp[16]


(* The safety re-check that ends do_action *)
\* C14: a do_action that transmitted its commands then polls the status of both
\* boards, updates the disconnection counter from that poll, and returns
\* normally only if neither the emergency flag, nor a counter at its limit, nor
\* a joint of the last-known frame outside its envelope was found; otherwise the
\* safety trip is raised from do_action itself.
C14_RecheckBeforeReturn ==
    [][(ret'.op = "do_action" /\ HasCmd(sent', "operation_control")) =>
          /\ Len(sent') = 4
          /\ sent'[1].c = "operation_control" /\ sent'[2].c = "operation_control"
          /\ sent'[3] = Call("front", "status", <<>>, sent'[3].r)
          /\ sent'[4] = Call("rear", "status", <<>>, sent'[4].r)
          /\ cli_disconn_duration_ms' =
                 IF PollDisconnected(sent'[3].r, sent'[4].r)
                 THEN cli_disconn_duration_ms + poll_period_ms ELSE 0
          /\ obs' = [obs EXCEPT !.last_action = args'[1]]
          /\ LET violation ==
                     \/ PollEmergency(SubSeq(sent', 3, 4))
                     \/ cli_disconn_duration_ms' >= cli_disconn_timeout_ms
                     \/ cli_missed_req' * poll_period_ms >= cli_disconn_timeout_ms
                     \/ UnsafeFrame(obs)
             IN  /\ (ret'.exc = NoExc) <=> ~violation
                 /\ violation => IsTrip(ret')]_vars

\* the re-check raised the joint-limit trip on a frame read by an earlier get_obs
C14_Witness ==
    /\ ret.op = "do_action" /\ HasCmd(sent, "operation_control")
    /\ ret.exc = EStopError /\ ret.why = "joint_limit"
    /\ UnsafeFrame(obs)
    /\ ~PollEmergency(SubSeq(sent, 3, 4))


(* Construction *)
\* the last round of the log: start acknowledged by both boards, then a status
\* poll showing both connected and emergency-free
ReadyRound(log) ==
    LET n == Len(log)
    IN  /\ n >= 4
        /\ SubSeq(log, n - 3, n - 2) = StartCalls(TRUE, TRUE)
        /\ log[n - 1].c = "status" /\ log[n - 1].b = "front"
        /\ log[n].c = "status" /\ log[n].b = "rear"
        /\ ~BoardDisconnected(log[n - 1].r, motor_ids_front)
        /\ ~BoardDisconnected(log[n].r, motor_ids_rear)
        /\ ~PollEmergency(SubSeq(log, n - 1, n))

LastRound(log) == SubSeq(log, Len(log) - 1, Len(log))

\* C16: estop and sleep never return normally: the stop loop is left only by
\* raising the error (RobotSleepError for sleep, RobotEStopError otherwise) and
\* only on a round whose two acknowledgements were both positive; every other
\* round, whatever earlier rounds acknowledged, is followed by a retry; and when
\* a round acknowledged by both boards eventually occurs the loop terminates.
C16_StopLoop ==
    /\ [][/\ (pc = "stopping" /\ pc' # "stopping") =>
               /\ pc' = "idle"
               /\ Len(sent') >= 2 /\ LastRound(sent') = StopCalls(TRUE, TRUE)
               /\ ret'.exc = IF ret.op = "sleep" THEN SleepError ELSE EStopError
          /\ (pc = "stopping" /\ pc' = "stopping" /\ sent' # sent) =>
               /\ LastRound(sent') # StopCalls(TRUE, TRUE)
               /\ ret' = ret /\ ret.exc = "running"
          /\ (ret'.op \in {"estop", "sleep"} /\ pc' # "stopping") =>
               ret'.exc \in {EStopError, SleepError}]_vars
    /\ (pc = "stopping") ~> (pc = "idle" /\ ret.exc \in {EStopError, SleepError})

\* the loop ended on its third round, after the front board alone and then the
\* rear board alone had acknowledged
C16_Witness ==
    /\ pc = "idle" /\ ret.op \in {"estop", "sleep"}
    /\ ret.exc \in {EStopError, SleepError}
    /\ Len(sent) = 6
    /\ SubSeq(sent, 1, 2) = StopCalls(TRUE, FALSE)
    /\ SubSeq(sent, 3, 4) = StopCalls(FALSE, TRUE)
    /\ LastRound(sent) = StopCalls(TRUE, TRUE)


(***************************************************************************)
(* rl::RL: add_mode, set_mode, build_state                                 *)
(***************************************************************************)
\* Python values that may be None: <<>> is None, <<x>> is the value x
None == <<>>
Some(x) == <<x>>
RuntimeError == "std::runtime_error"
TypeError == "TypeError"
ValueError == "ValueError"

get_mode_id_(m) == m.id

\* a search that falls back on the first registered profile
find_mode_or_first(modes, id) ==
    IF \E i \in 1..Len(modes) : modes[i].id = id
    THEN CHOOSE i \in 1..Len(modes) : modes[i].id = id
    ELSE IF Len(modes) > 0 THEN 1 ELSE 0

\* index of the first registered profile with that id, 0 when there is none
find_mode(modes, id) ==
    IF \E i \in 1..Len(modes) : get_mode_id_(modes[i]) = id
    THEN CHOOSE i \in 1..Len(modes) :
             /\ get_mode_id_(modes[i]) = id
             /\ \A j \in 1..(i - 1) : get_mode_id_(modes[j]) # id
    ELSE 0

\* a registration that also makes a replaced active profile the active one
add_mode_activates(st, mode) ==
    LET n == find_mode(st.modes_, get_mode_id_(mode))
    IN  IF n # 0
        THEN [st EXCEPT !.modes_ = [st.modes_ EXCEPT ![n] = mode],
                        !.mode_ = IF st.mode_.id = mode.id THEN mode ELSE st.mode_]
        ELSE [st EXCEPT !.modes_ = Append(st.modes_, mode)]

\* a registration that never replaces
add_mode_append(st, mode) == [st EXCEPT !.modes_ = Append(st.modes_, mode)]

add_mode(st, mode) ==
    LET n == find_mode(st.modes_, get_mode_id_(mode))
    IN  IF n # 0
        THEN [st EXCEPT !.modes_ = [st.modes_ EXCEPT ![n] = mode]]
        ELSE [st EXCEPT !.modes_ = Append(st.modes_, mode)]

\* obs_to_length_["command"] = cmd_len
with_command(lens, cmd_len) ==
    [k \in DOMAIN lens \cup {"command"} |-> IF k = "command" THEN cmd_len ELSE lens[k]]

\* the sum of get_obs_len_ over the keys; Npos when get_obs_len_ throws
RECURSIVE sum_obs_len(_, _)
sum_obs_len(lens, keys) ==
    IF keys = <<>> THEN 0
    ELSE IF Head(keys) \notin DOMAIN lens THEN Npos
    ELSE LET r == sum_obs_len(lens, Tail(keys))
         IN  IF r = Npos THEN Npos ELSE lens[Head(keys)] + r

\* a state vector sized for a single frame
state_len_one_frame(single_len, stack_size, rest) == single_len + rest

\* state_len: single_len * stack_size, plus the non-stacked lengths
state_len(single_len, stack_size, rest) == single_len * stack_size + rest

\* the profile's obs_scale is a dict of float lists
\* a resize in place of the assign: the elements already there are kept
assign_resize(old, n) == [i \in 1..n |-> IF i <= Len(old) THEN old[i] ELSE 0]

\* std::vector::assign(n, 0.0f) on a buffer
assign(old, n) == Zeros(n)

set_mode(st, mode_id_obj) ==
    IF mode_id_obj = None THEN [st |-> st, exc |-> NoExc]
    ELSE LET n == find_mode(st.modes_, mode_id_obj[1])
         IN  IF n = 0 THEN [st |-> st, exc |-> NoExc]
             ELSE
               LET m == st.modes_[n]
                   lens == with_command(st.obs_to_length_, m.cmd_vector_length)
                   s1 == [st EXCEPT !.obs_to_length_ = lens,
                                    !.cached_stacked_order_ = m.stacked_obs_order]
                   single_len == sum_obs_len(lens, m.stacked_obs_order)
                   s2 == [s1 EXCEPT !.single_frame_len_ = single_len,
                                    !.single_frame_ = assign(st.single_frame_, single_len),
                                    !.cached_stack_size_ = m.stack_size,
                                    !.cached_non_stacked_order_ = m.non_stacked_obs_order]
                   rest == sum_obs_len(lens, m.non_stacked_obs_order)
                   s3 == [s2 EXCEPT !.state_ = assign(st.state_,
                                                      state_len(single_len, m.stack_size, rest)),
                                    !.last_action_ = assign(st.last_action_, st.last_action_len_),
                                    !.scaled_action_ = assign(st.scaled_action_,
                                                              st.last_action_len_),
                                    !.mode_ = m,
                                    !.cached_policy_ = m.policy,
                                    !.cached_action_scale_ = m.action_scale,
                                    !.cached_cmd_scale_ = m.cmd_scale,
                                    !.cached_obs_scale_map_ = m.obs_scale]
               IN  IF single_len = Npos THEN [st |-> s1, exc |-> RuntimeError]
                   ELSE IF rest = Npos THEN [st |-> s2, exc |-> RuntimeError]
                   ELSE IF Len(m.action_scale) < st.last_action_len_
                   THEN [st |-> s3, exc |-> RuntimeError]
                   ELSE [st |-> s3, exc |-> NoExc]

ensure_mode_(st) == st.mode_.id # Npos

get_obs_scale_(st, key, len) ==
    LET has == key \in DOMAIN st.cached_obs_scale_map_
    IN  IF has /\ Len(st.cached_obs_scale_map_[key]) >= len
        THEN st.cached_obs_scale_map_[key]
        ELSE [i \in 1..len |->
                 IF has /\ i <= Len(st.cached_obs_scale_map_[key])
                 THEN st.cached_obs_scale_map_[key][i] ELSE 1]

\* `scale` of both loops
scale_of(st, key, len) ==
    IF key = "command" THEN st.cached_cmd_scale_ ELSE get_obs_scale_(st, key, len)

\* `obs_obj` of both loops: None when the channel is missing
obs_obj(key, obs_in, cmd) ==
    IF key = "command" THEN cmd.cmd_vector
    ELSE IF key = "last_action" THEN None
    ELSE IF key \in DOMAIN obs_in THEN Some(obs_in[key])
    ELSE None

src_vec(st, key, o) == IF key = "last_action" THEN st.last_action_ ELSE o[1]

\* a write that ignores the scale
scaled_unit(src, scale, len) == [j \in 1..len |-> src[j]]

\* (*src_vec)[j] * scale[j] for j < obs_len
scaled(src, scale, len) == [j \in 1..len |-> src[j] * scale[j]]

\* a missing stacked channel written as zeros
held_zero(state, i, len) == Zeros(len)

\* single_frame_[i] = state_[i] for obs_len elements from offset i
held(state, i, len) == SubSeq(state, i + 1, i + len)

\* loop 1: the single frame, from offset i on
RECURSIVE single_frame(_, _, _, _, _)
single_frame(st, keys, obs_in, cmd, i) ==
    IF keys = <<>> THEN <<>>
    ELSE LET key == Head(keys)
             obs_len == st.obs_to_length_[key]
             o == obs_obj(key, obs_in, cmd)
             seg == IF o = None /\ key # "last_action"
                    THEN held(st.state_, i, obs_len)
                    ELSE scaled(src_vec(st, key, o), scale_of(st, key, obs_len), obs_len)
         IN  seg \o single_frame(st, Tail(keys), obs_in, cmd, i + obs_len)

\* std::copy(v + first, v + last, v + d_first) on disjoint ranges
copy(v, first, last, d_first) ==
    [n \in 1..Len(v) |->
        IF n > d_first /\ n <= d_first + (last - first)
        THEN v[first + (n - d_first)] ELSE v[n]]

RECURSIVE shift_up(_, _, _, _)
shift_up(state, k, S, L) ==
    IF k > S - 1 THEN state
    ELSE shift_up(copy(state, (k - 1) * L, k * L, k * L), k + 1, S, L)

\* a shift that walks the slots from the newest to the oldest
stack_shift_ascending(state, S, L) == IF S > 1 THEN shift_up(state, 1, S, L) ELSE state

RECURSIVE shift(_, _, _)
shift(state, k, L) ==
    IF k <= 0 THEN state
    ELSE shift(copy(state, (k - 1) * L, k * L, k * L), k - 1, L)

\* for (k = S - 1; k > 0; --k) copy slot k-1 to slot k
stack_shift(state, S, L) == IF S > 1 THEN shift(state, S - 1, L) ELSE state

\* v with w written from offset base on
write_at(v, base, w) ==
    [n \in 1..Len(v) |-> IF n > base /\ n <= base + Len(w) THEN w[n - base] ELSE v[n]]

\* a missing non-stacked channel written as zeros
skipped_zero(state, base, len) == write_at(state, base, Zeros(len))

\* base += obs_len and nothing else
skipped(state, base, len) == state

\* loop 3: the non-stacked region, from offset base on
RECURSIVE non_stacked(_, _, _, _, _, _)
non_stacked(st, state, keys, obs_in, cmd, base) ==
    IF keys = <<>> THEN state
    ELSE LET key == Head(keys)
             obs_len == st.obs_to_length_[key]
             o == obs_obj(key, obs_in, cmd)
             state1 == IF o = None /\ key # "last_action"
                       THEN skipped(state, base, obs_len)
                       ELSE write_at(state, base,
                                scaled(src_vec(st, key, o), scale_of(st, key, obs_len),
                                       obs_len))
         IN  non_stacked(st, state1, Tail(keys), obs_in, cmd, base + obs_len)

\* the checks on scaled_last_action: a record [kind, nested, v]
last_action_error(st, sla) ==
    IF sla.kind = "none" THEN NoExc
    ELSE IF sla.kind # "seq" THEN TypeError
    ELSE IF Len(sla.v) # st.last_action_len_ THEN ValueError
    ELSE IF Len(sla.v) > 0 /\ sla.nested THEN ValueError
    ELSE NoExc

\* a supplied previous action that is validated and then dropped
apply_last_action_dropped(st, sla) == st

\* last_action_ = std::move(v) for a supplied previous action
apply_last_action(st, sla) ==
    IF sla.kind = "none" THEN st ELSE [st EXCEPT !.last_action_ = sla.v]

build_state(st, obs_in, cmd, scaled_last_action) ==
    IF ~ensure_mode_(st) THEN [st |-> st, exc |-> RuntimeError, out |-> <<>>]
    ELSE
      LET sw == set_mode(st, cmd.mode_id)
          chk == last_action_error(sw.st, scaled_last_action)
          s1 == apply_last_action(sw.st, scaled_last_action)
          frame == single_frame(s1, s1.cached_stacked_order_, obs_in, cmd, 0) \o <<>>
          L == s1.single_frame_len_
          S == s1.cached_stack_size_
          shifted == write_at(stack_shift(s1.state_, S, L), 0, frame)
          final == non_stacked(s1, shifted, s1.cached_non_stacked_order_, obs_in, cmd,
                               L * S) \o <<>>
      IN  IF sw.exc # NoExc THEN [st |-> sw.st, exc |-> sw.exc, out |-> <<>>]
          ELSE IF chk # NoExc THEN [st |-> sw.st, exc |-> chk, out |-> <<>>]
          ELSE [st |-> [s1 EXCEPT !.single_frame_ = frame, !.state_ = final],
                exc |-> NoExc, out |-> final]

\* the exception policy.inference(state) raised
InferenceError == "py::error_already_set"

\* a select_action that retains the scaled action
select_action_retains_scaled(st, state, res) ==
    IF ~ensure_mode_(st)
    THEN [st |-> st, exc |-> RuntimeError, out |-> <<>>, calls |-> <<>>]
    ELSE
      LET call == [policy |-> st.cached_policy_, state |-> state, result |-> res]
          scaled_action == [i \in 1..st.last_action_len_ |->
                               res.raw[i] * st.cached_action_scale_[i]]
      IN  IF ~res.ok
          THEN [st |-> st, exc |-> InferenceError, out |-> <<>>, calls |-> <<call>>]
          ELSE [st |-> [st EXCEPT !.scaled_action_ = scaled_action,
                                  !.last_action_ = scaled_action],
                exc |-> NoExc, out |-> scaled_action, calls |-> <<call>>]

\* res is what cached_policy_.inference(state) does: [ok, raw]
select_action(st, state, res) ==
    IF ~ensure_mode_(st)
    THEN [st |-> st, exc |-> RuntimeError, out |-> <<>>, calls |-> <<>>]
    ELSE
      LET call == [policy |-> st.cached_policy_, state |-> state, result |-> res]
          scaled_action == [i \in 1..st.last_action_len_ |->
                               res.raw[i] * st.cached_action_scale_[i]]
      IN  IF ~res.ok
          THEN [st |-> st, exc |-> InferenceError, out |-> <<>>, calls |-> <<call>>]
          ELSE [st |-> [st EXCEPT !.scaled_action_ = scaled_action,
                                  !.last_action_ = res.raw],
                exc |-> NoExc, out |-> scaled_action, calls |-> <<call>>]

RLRet(op, exc, out) == [op |-> op, exc |-> exc, out |-> out, calls |-> <<>>]
Take(v, n) == SubSeq(v, 1, IF Len(v) < n THEN Len(v) ELSE n)
Switches(st, mode_id_obj) == mode_id_obj # None /\ find_mode(st.modes_, mode_id_obj[1]) # 0

AddMode(mode) ==
    /\ rl' = add_mode(rl, mode)
    /\ rl_ret' = RLRet("add_mode", NoExc, <<>>)
    /\ rl_args' = <<mode>>
    /\ UNCHANGED <<profile_vars, pol_vars, frames, pc, wait_rounds, stop_rounds, robot_vars, ret, args, sent,
                   tripped, gains_ok_ever, disconn_polls>>

SetMode(mode_id_obj) ==
    /\ \E r \in {set_mode(rl, mode_id_obj)} :
          /\ rl' = r.st
          /\ rl_ret' = RLRet("set_mode", r.exc, <<>>)
    /\ rl_args' = <<mode_id_obj>>
    /\ frames' = IF Switches(rl, mode_id_obj) THEN <<>> ELSE frames
    /\ UNCHANGED <<profile_vars, pol_vars, pc, wait_rounds, stop_rounds, robot_vars, ret, args, sent,
                   tripped, gains_ok_ever, disconn_polls>>

BuildState(obs_in, cmd, scaled_last_action) ==
    /\ \E r \in {build_state(rl, obs_in, cmd, scaled_last_action)} :
          /\ rl' = r.st
          /\ rl_ret' = RLRet("build_state", r.exc, r.out)
          /\ \E old \in {IF ensure_mode_(rl) /\ Switches(rl, cmd.mode_id)
                        THEN <<>> ELSE frames} :
                frames' = IF r.exc # NoExc THEN old
                          ELSE Take(<<r.st.single_frame_>> \o old, r.st.cached_stack_size_)
    /\ rl_args' = <<obs_in, cmd, scaled_last_action>>
    /\ UNCHANGED <<profile_vars, pol_vars, pc, wait_rounds, stop_rounds, robot_vars, ret, args, sent,
                   tripped, gains_ok_ever, disconn_polls>>

SelectAction(state, res) ==
    /\ \E r \in {select_action(rl, state, res)} :
          /\ rl' = r.st
          /\ rl_ret' = [op |-> "select_action", exc |-> r.exc, out |-> r.out,
                        calls |-> r.calls]
    /\ rl_args' = <<state>>
    /\ UNCHANGED <<profile_vars, pol_vars, frames, pc, wait_rounds, stop_rounds, robot_vars, ret, args, sent,
                   tripped, gains_ok_ever, disconn_polls>>


(***************************************************************************)
(* State builder: profiles, inputs and specification                       *)
(***************************************************************************)
\* depth 2, one stacked channel of length 3 scaled by 2, one non-stacked channel
\* of length 1
ModeA ==
    [id |-> 1, cmd_vector_length |-> 1, stack_size |-> 2,
     stacked_obs_order |-> <<"ang_vel">>,
     non_stacked_obs_order |-> <<"command">>,
     policy |-> "policy_a",
     action_scale |-> Ones(16),
     cmd_scale |-> <<3>>,
     obs_scale |-> [k \in {"ang_vel"} |-> <<2, 2, 2>>]]

\* depth 3, two stacked and two non-stacked channels; the scale of proj_grav is
\* shorter than the channel, the scale of lin_vel longer, ang_vel has none
ModeB ==
    [id |-> 2, cmd_vector_length |-> 2, stack_size |-> 3,
     stacked_obs_order |-> <<"ang_vel", "proj_grav">>,
     non_stacked_obs_order |-> <<"lin_vel", "command">>,
     policy |-> "policy_b",
     action_scale |-> Ones(16),
     cmd_scale |-> <<1, 2>>,
     obs_scale |-> [k \in {"proj_grav", "lin_vel"} |->
                      IF k = "proj_grav" THEN <<5>> ELSE <<2, 3, 4, 9>>]]

Profiles == {ModeA, ModeB}
UnknownId == 3
ProjGrav == <<4, 5, 6>>
LinVel == <<7, 8, 9>>
CmdVector == <<6, 7>>

ObsDict(D, a) ==
    [k \in D |-> IF k = "ang_vel" THEN a ELSE IF k = "proj_grav" THEN ProjGrav ELSE LinVel]
\* the observation dicts: every subset of the three channels, and two values
\* of ang_vel when it is the only channel or all three are there
ObsDicts ==
    {ObsDict(D, <<1, 2, 3>>) : D \in SUBSET {"ang_vel", "proj_grav", "lin_vel"}}
    \cup {ObsDict(D, <<1, 1, 1>>) : D \in {{"ang_vel"}, {"ang_vel", "proj_grav", "lin_vel"}}}
FullObs == ObsDict({"ang_vel", "proj_grav", "lin_vel"}, <<1, 2, 3>>)

Cmd(mode_id, cmd_vector) == [mode_id |-> mode_id, cmd_vector |-> cmd_vector]
NoAction == [kind |-> "none", nested |-> FALSE, v |-> <<>>]
BadActions == {[kind |-> "seq", nested |-> FALSE, v |-> Ones(15)],
               [kind |-> "scalar", nested |-> FALSE, v |-> <<>>]}

\* obs, cmd, scaled_last_action
BuildInputs ==
    {<<o, Cmd(None, c), NoAction>> : o \in ObsDicts, c \in {None, Some(CmdVector)}}
    \cup {<<FullObs, Cmd(Some(i), Some(CmdVector)), NoAction>> : i \in {1, 2, UnknownId}}
    \cup {<<FullObs, Cmd(None, None), a>> : a \in BadActions}

RLAddMode == \E m \in Profiles : AddMode(m)
RLSetMode == \E i \in {None, Some(1), Some(2), Some(UnknownId)} : SetMode(i)
RLBuildState == \E x \in BuildInputs : BuildState(x[1], x[2], x[3])

NextRL ==
    \/ RLAddMode
    \/ RLSetMode
    \/ RLBuildState

SpecRL == Init /\ [][NextRL]_vars

(* Layout of the state vector, as the profile describes it *)
Slot(state, k, L) == SubSeq(state, k * L + 1, (k + 1) * L)
Slice(state, off, len) == SubSeq(state, off + 1, off + len)
RECURSIVE Flatten(_)
Flatten(fs) == IF fs = <<>> THEN <<>> ELSE Head(fs) \o Flatten(Tail(fs))
ChanLen(key, m) ==
    IF key = "command" THEN m.cmd_vector_length ELSE obs_to_length_init[key]
RECURSIVE ChanOffset(_, _, _)
ChanOffset(keys, n, m) ==
    IF n <= 1 THEN 0 ELSE ChanOffset(keys, n - 1, m) + ChanLen(keys[n - 1], m)
FrameLen(m) == ChanOffset(m.stacked_obs_order, Len(m.stacked_obs_order) + 1, m)
ProfileScale(m, key, j) ==
    IF key = "command" THEN m.cmd_scale[j]
    ELSE IF key \in DOMAIN m.obs_scale /\ j <= Len(m.obs_scale[key])
    THEN m.obs_scale[key][j] ELSE 1
Missing(key, call) ==
    IF key = "command" THEN call[2].cmd_vector = None
    ELSE key # "last_action" /\ key \notin DOMAIN call[1]
Value(key, call, st) ==
    IF key = "command" THEN call[2].cmd_vector[1]
    ELSE IF key = "last_action" THEN st.last_action_ ELSE call[1][key]
Written(key, call, st, m) ==
    [j \in 1..ChanLen(key, m) |-> Value(key, call, st)[j] * ProfileScale(m, key, j)]
\* the step is a build_state call that returned a state
Built == rl_ret'.op = "build_state" /\ rl_ret'.exc = NoExc
\* ... on the mode that was already active, without a switch
BuiltSameMode == Built /\ ~Switches(rl, rl_args'[2].mode_id)
PairwiseDistinct(fs) == \A a \in 1..Len(fs), b \in 1..Len(fs) : a # b => fs[a] # fs[b]

\* C17: on an active mode of depth N and frame length L, once N or more
\* consecutive build_state calls have produced frames, the stacked region is the
\* last N frames concatenated, most recent first; each call moves every older
\* frame one slot further and drops the oldest.
C17_Stacking ==
    /\ [](( /\ ensure_mode_(rl)
            /\ Len(frames) = rl.mode_.stack_size) =>
              Slice(rl.state_, 0, rl.mode_.stack_size * FrameLen(rl.mode_)) = Flatten(frames))
    /\ [][BuiltSameMode =>
            LET m == rl.mode_
                L == FrameLen(m)
            IN  /\ Slot(rl'.state_, 0, L) = rl'.single_frame_
                /\ frames'[1] = rl'.single_frame_
                /\ \A k \in 1..(m.stack_size - 1) :
                      Slot(rl'.state_, k, L) = Slot(rl.state_, k - 1, L)]_vars

\* three different frames are stacked, most recent first
C17_Witness ==
    /\ rl_ret.op = "build_state" /\ rl_ret.exc = NoExc
    /\ ensure_mode_(rl) /\ rl.mode_.stack_size = 3
    /\ Len(frames) = 3 /\ PairwiseDistinct(frames)
    /\ rl.state_ # Zeros(Len(rl.state_))
    /\ Slice(rl.state_, 0, 3 * FrameLen(rl.mode_)) = Flatten(frames)

\* C18: a stacked channel other than last-action that is missing from the
\* inputs keeps, in the newest frame, exactly the slice slot 0 held before the
\* call, while the stacked channels that are present are freshly written.
C18_MissingStackedHolds ==
    [][BuiltSameMode =>
          LET m == rl.mode_
              keys == m.stacked_obs_order
          IN  \A n \in 1..Len(keys) :
                 LET off == ChanOffset(keys, n, m)
                     len == ChanLen(keys[n], m)
                 IN  Slice(rl'.state_, off, len) =
                        IF Missing(keys[n], rl_args')
                        THEN Slice(rl.state_, off, len)
                        ELSE Written(keys[n], rl_args', rl', m)]_vars

\* proj_grav was missing and kept its scaled, non-zero slice, while ang_vel was
\* written with a value different from the one in the older slot
C18_Witness ==
    /\ rl_ret.op = "build_state" /\ rl_ret.exc = NoExc
    /\ ensure_mode_(rl) /\ rl.mode_.id = 2
    /\ rl_args[2].mode_id = None
    /\ Missing("proj_grav", rl_args) /\ ~Missing("ang_vel", rl_args)
    /\ Slice(rl.state_, 3, 3) = <<20, 5, 6>>
    /\ Slice(rl.state_, 9, 3) = <<20, 5, 6>>
    /\ Slice(rl.state_, 0, 3) = rl_args[1]["ang_vel"]
    /\ Slice(rl.state_, 0, 3) # Slice(rl.state_, 6, 3)

\* C19: a non-stacked channel that is missing from the inputs keeps its slice
\* of the state vector, and the non-stacked channels after it are still written
\* at their own offsets.
C19_MissingNonStackedUntouched ==
    [][BuiltSameMode =>
          LET m == rl.mode_
              keys == m.non_stacked_obs_order
              base == m.stack_size * FrameLen(m)
          IN  \A n \in 1..Len(keys) :
                 LET off == base + ChanOffset(keys, n, m)
                     len == ChanLen(keys[n], m)
                 IN  Slice(rl'.state_, off, len) =
                        IF Missing(keys[n], rl_args')
                        THEN Slice(rl.state_, off, len)
                        ELSE Written(keys[n], rl_args', rl', m)]_vars

\* lin_vel was missing and kept its non-zero slice; command, which follows it,
\* was written at its own offset
C19_Witness ==
    /\ rl_ret.op = "build_state" /\ rl_ret.exc = NoExc
    /\ ensure_mode_(rl) /\ rl.mode_.id = 2
    /\ rl_args[2].mode_id = None
    /\ Missing("lin_vel", rl_args) /\ ~Missing("command", rl_args)
    /\ Slice(rl.state_, 18, 3) = <<14, 24, 36>>
    /\ Slice(rl.state_, 21, 2) = <<6, 14>>

\* C20: every channel present in the inputs is written as value x scale, element
\* by element, at its offset in profile order (stacked channels in slot 0, then
\* the non-stacked channels after the N slots); and with depth 2, one stacked
\* channel of length 3 scaled by [2,2,2] and one non-stacked channel of length
\* 1, two calls with the stacked channel [1,1,1] give [2,2,2, 2,2,2, v] where v
\* is the non-stacked value.
C20_ValueTimesScale ==
    [][Built =>
          LET m == rl'.mode_
              sk == m.stacked_obs_order
              nk == m.non_stacked_obs_order
              base == m.stack_size * FrameLen(m)
          IN  /\ Len(rl'.state_) = base + ChanOffset(nk, Len(nk) + 1, m)
              /\ rl_ret'.out = rl'.state_
              /\ \A n \in 1..Len(sk) :
                    ~Missing(sk[n], rl_args') =>
                        Slice(rl'.state_, ChanOffset(sk, n, m), ChanLen(sk[n], m))
                            = Written(sk[n], rl_args', rl', m)
              /\ \A n \in 1..Len(nk) :
                    ~Missing(nk[n], rl_args') =>
                        Slice(rl'.state_, base + ChanOffset(nk, n, m), ChanLen(nk[n], m))
                            = Written(nk[n], rl_args', rl', m)
              /\ ( /\ m = ModeA
                   /\ rl.mode_ = ModeA /\ rl_ret.op = "build_state" /\ rl_ret.exc = NoExc
                   /\ ~Missing("ang_vel", rl_args) /\ rl_args[1]["ang_vel"] = <<1, 1, 1>>
                   /\ ~Missing("ang_vel", rl_args') /\ rl_args'[1]["ang_vel"] = <<1, 1, 1>>
                   /\ ~Switches(rl, rl_args'[2].mode_id)) =>
                      /\ Slice(rl'.state_, 0, 6) = <<2, 2, 2, 2, 2, 2>>
                      /\ rl'.state_[7] = IF Missing("command", rl_args') THEN rl.state_[7]
                                         ELSE rl_args'[2].cmd_vector[1][1] * 3]_vars

\* the example: two calls with [1,1,1] and a command
C20_Witness ==
    /\ rl_ret.op = "build_state" /\ rl_ret.exc = NoExc
    /\ rl.mode_.id = 1 /\ rl.mode_ = ModeA
    /\ ~Missing("ang_vel", rl_args) /\ rl_args[1]["ang_vel"] = <<1, 1, 1>>
    /\ ~Missing("command", rl_args)
    /\ frames = <<<<2, 2, 2>>, <<2, 2, 2>>>>
    /\ rl.state_ = <<2, 2, 2, 2, 2, 2, 18>>


(***************************************************************************)
(* Mode registry and mode switching                                        *)
(***************************************************************************)
\* a second profile with the id of ModeA and another layout
ModeA2 ==
    [id |-> 1, cmd_vector_length |-> 0, stack_size |-> 1,
     stacked_obs_order |-> <<"lin_vel">>,
     non_stacked_obs_order |-> <<>>,
     policy |-> "policy_a2",
     action_scale |-> [i \in 1..16 |-> 2],
     cmd_scale |-> <<>>,
     obs_scale |-> [k \in {"lin_vel"} |-> <<1, 1, 1>>]]

RawAction == [i \in 1..16 |-> i]
NestedAction == [kind |-> "seq", nested |-> TRUE, v |-> Ones(16)]

\* policy.inference(state) as RL sees it: it fails unless the state has the
\* width the policy was loaded with, which is the profile's state length
Inference(st, state, raw) == [ok |-> Len(state) = Len(st.state_), raw |-> raw]

ModeProfiles == {ModeA, ModeA2, ModeB}
ModeIds == {None, Some(1), Some(2), Some(UnknownId)}
ModeBuildInputs ==
    {<<o, Cmd(i, Some(CmdVector)), a>> :
        o \in {FullObs, ObsDict({}, <<>>)}, i \in ModeIds,
        a \in {NoAction, NestedAction} \cup BadActions}

ModeAddMode == \E m \in ModeProfiles : AddMode(m)
ModeSetMode == \E i \in ModeIds : SetMode(i)
ModeBuildState == \E x \in ModeBuildInputs : BuildState(x[1], x[2], x[3])
ModeSelectAction ==
    \E state \in {rl.state_, <<0>>} : SelectAction(state, Inference(rl, state, RawAction))

NextMode ==
    \/ ModeAddMode
    \/ ModeSetMode
    \/ ModeBuildState
    \/ ModeSelectAction

SpecMode == Init /\ [][NextMode]_vars

(* Claims about the registry and the switch *)
Registered(st, id_obj) ==
    id_obj # None /\ \E i \in 1..Len(st.modes_) : st.modes_[i].id = id_obj[1]
ProfileOf(st, id_obj) ==
    st.modes_[CHOOSE i \in 1..Len(st.modes_) : st.modes_[i].id = id_obj[1]]
LayoutLen(m) ==
    m.stack_size * FrameLen(m)
        + ChanOffset(m.non_stacked_obs_order, Len(m.non_stacked_obs_order) + 1, m)

\* C21: set_mode with no id or with an id that is not registered raises nothing
\* and changes nothing: active mode, cached layout, state vector, last-action
\* buffer and registry are as before.
C21_UnknownIdNoOp ==
    [][(rl_ret'.op = "set_mode" /\ ~Registered(rl, rl_args'[1])) =>
          (rl_ret'.exc = NoExc /\ rl' = rl /\ frames' = frames)]_vars

\* an unregistered id was given while a mode was active and the state built
C21_Witness ==
    /\ rl_ret.op = "set_mode" /\ rl_ret.exc = NoExc
    /\ rl_args = <<Some(UnknownId)>>
    /\ ensure_mode_(rl) /\ Len(rl.modes_) = 2
    /\ rl.state_ # Zeros(Len(rl.state_))
    /\ rl.last_action_ = RawAction


\* C22: a set_mode to a registered id leaves every cached layout field equal to
\* that profile's (stacked order, non-stacked order, depth, per-channel scales,
\* command scale, action scale, command length, policy handle); whenever a mode
\* is active the state vector has length sum(stacked lengths) x depth +
\* sum(non-stacked lengths) of the active profile; build_state and
\* select_action on the active mode keep that length.
C22_LayoutMatchesProfile ==
    /\ [](ensure_mode_(rl) => Len(rl.state_) = LayoutLen(rl.mode_))
    /\ [][/\ (rl_ret'.op = "set_mode" /\ Registered(rl, rl_args'[1])) =>
               LET m == ProfileOf(rl, rl_args'[1])
               IN  /\ rl'.mode_ = m
                   /\ rl'.cached_stacked_order_ = m.stacked_obs_order
                   /\ rl'.cached_non_stacked_order_ = m.non_stacked_obs_order
                   /\ rl'.cached_stack_size_ = m.stack_size
                   /\ rl'.cached_obs_scale_map_ = m.obs_scale
                   /\ rl'.cached_cmd_scale_ = m.cmd_scale
                   /\ rl'.cached_action_scale_ = m.action_scale
                   /\ rl'.cached_policy_ = m.policy
                   /\ rl'.obs_to_length_["command"] = m.cmd_vector_length
                   /\ rl'.single_frame_len_ = FrameLen(m)
                   /\ Len(rl'.state_) = LayoutLen(m)
          /\ ( /\ rl_ret'.op \in {"build_state", "select_action"}
               /\ rl'.mode_ = rl.mode_) =>
                 Len(rl'.state_) = Len(rl.state_)]_vars

\* the builder switched from one layout to a longer one
C22_Witness ==
    /\ rl_ret.op = "set_mode" /\ rl_ret.exc = NoExc
    /\ rl_args = <<Some(2)>>
    /\ rl.mode_.id = 2 /\ rl.mode_ = ModeB
    /\ Len(rl.state_) = 23 /\ rl.cached_stack_size_ = 3
    /\ Len(rl.modes_) = 2 /\ rl.modes_[1] = ModeA2

UniqueIds(modes) ==
    \A a \in 1..Len(modes), b \in 1..Len(modes) : a # b => modes[a].id # modes[b].id

\* C23: the registry never holds two profiles with the same id; add_mode of a
\* profile whose id is registered replaces that entry in place, keeping the
\* length and every other entry; add_mode of a new id appends it at the end.
C23_RegistryUniqueIds ==
    /\ [](UniqueIds(rl.modes_))
    /\ [][rl_ret'.op = "add_mode" =>
            LET mode == rl_args'[1]
            IN  IF \E i \in 1..Len(rl.modes_) : rl.modes_[i].id = mode.id
                THEN /\ Len(rl'.modes_) = Len(rl.modes_)
                     /\ \A i \in 1..Len(rl.modes_) :
                           rl'.modes_[i] = IF rl.modes_[i].id = mode.id THEN mode
                                           ELSE rl.modes_[i]
                ELSE rl'.modes_ = rl.modes_ \o <<mode>>]_vars

\* a profile was replaced at the first position of a registry of two
C23_Witness ==
    /\ rl_ret.op = "add_mode" /\ rl_args = <<ModeA2>>
    /\ rl.modes_ = <<ModeA2, ModeB>>
    /\ ensure_mode_(rl) /\ rl.mode_ = ModeA


\* C24 as stated: whenever the command of a build_state call carries a
\* registered mode id (and the previous action, if any, is well formed), the
\* builder switches to that mode and builds: the call returns a state vector
\* with that profile's layout length, whichever mode or no mode was active.
C24_SwitchThenBuild ==
    [][( /\ rl_ret'.op = "build_state"
         /\ Registered(rl, rl_args'[2].mode_id)
         /\ rl_args'[3] = NoAction) =>
           LET m == ProfileOf(rl, rl_args'[2].mode_id)
           IN  /\ rl_ret'.exc = NoExc
               /\ rl'.mode_ = m
               /\ Len(rl_ret'.out) = LayoutLen(m)]_vars

BadAction(a) ==
    a.kind # "none" /\ (a.kind # "seq" \/ Len(a.v) # 16 \/ a.nested)

\* C25 as stated: a build_state call whose previous scaled action has a wrong
\* length or is not one-dimensional fails and leaves the state vector, the
\* last-action buffer and the active mode as they were, also when its command
\* carries a mode id.
C25_BadActionNoMutation ==
    [][(rl_ret'.op = "build_state" /\ BadAction(rl_args'[3])) =>
          /\ rl_ret'.exc # NoExc
          /\ rl'.state_ = rl.state_
          /\ rl'.last_action_ = rl.last_action_
          /\ rl'.mode_ = rl.mode_]_vars


(***************************************************************************)
(* select_action and the last-action channel                               *)
(***************************************************************************)
\* one stacked last-action channel scaled by 2, actions scaled by 3
ModeC ==
    [id |-> 4, cmd_vector_length |-> 0, stack_size |-> 1,
     stacked_obs_order |-> <<"last_action">>,
     non_stacked_obs_order |-> <<"ang_vel">>,
     policy |-> "policy_c",
     action_scale |-> [i \in 1..16 |-> 3],
     cmd_scale |-> <<>>,
     obs_scale |-> [k \in {"last_action", "ang_vel"} |->
                      IF k = "last_action" THEN [i \in 1..16 |-> 2] ELSE <<1, 1, 1>>]]

RawActions == {RawAction, [i \in 1..16 |-> 0 - 1]}

SelAddMode == \E m \in {ModeC, ModeA2} : AddMode(m)
SelSetMode == \E i \in {None, Some(1), Some(4)} : SetMode(i)
\* a valid previous scaled action, and observations that carry a last_action
SuppliedAction == [kind |-> "seq", nested |-> FALSE, v |-> [i \in 1..16 |-> 5]]
ObsWithLastAction ==
    [k \in {"ang_vel", "last_action"} |->
        IF k = "ang_vel" THEN <<1, 2, 3>> ELSE [i \in 1..16 |-> 9]]

SelBuildState ==
    \E i \in {None, Some(4)}, o \in {FullObs, ObsWithLastAction},
       a \in {NoAction, SuppliedAction} :
        BuildState(o, Cmd(i, None), a)
SelSelectAction ==
    \E state \in {rl.state_, <<0>>}, raw \in RawActions :
        SelectAction(state, Inference(rl, state, raw))

NextSel ==
    \/ SelAddMode
    \/ SelSetMode
    \/ SelBuildState
    \/ SelSelectAction

SpecSel == Init /\ [][NextSel]_vars

\* C26: select_action with no active mode fails without calling the policy;
\* with an active mode it calls that profile's policy exactly once with the
\* given state, returns raw[i] x action_scale[i] for every action index and
\* retains the raw output as the last action; the next build_state without a
\* supplied previous action writes the last-action channel as that raw output
\* times the channel scale.
C26_SelectAction ==
    [][/\ (rl_ret'.op = "select_action" /\ ~ensure_mode_(rl)) =>
            (rl_ret'.exc # NoExc /\ rl_ret'.calls = <<>> /\ rl' = rl)
       /\ (rl_ret'.op = "select_action" /\ ensure_mode_(rl)) =>
            /\ Len(rl_ret'.calls) = 1
            /\ rl_ret'.calls[1].policy = rl.mode_.policy
            /\ rl_ret'.calls[1].state = rl_args'[1]
            /\ rl_ret'.exc = NoExc <=> rl_ret'.calls[1].result.ok
            /\ rl_ret'.exc = NoExc =>
                 /\ Len(rl_ret'.out) = 16
                 /\ \A i \in 1..16 :
                       rl_ret'.out[i] = rl_ret'.calls[1].result.raw[i]
                                           * rl.mode_.action_scale[i]
                 /\ rl'.last_action_ = rl_ret'.calls[1].result.raw
            /\ rl_ret'.exc # NoExc => rl' = rl
       /\ ( /\ rl_ret.op = "select_action" /\ rl_ret.exc = NoExc
            /\ rl_ret'.op = "build_state" /\ rl_ret'.exc = NoExc
            /\ rl_args'[3] = NoAction /\ ~Switches(rl, rl_args'[2].mode_id)) =>
              LET m == rl.mode_
                  keys == m.stacked_obs_order
              IN  \A n \in 1..Len(keys) :
                     keys[n] = "last_action" =>
                        Slice(rl'.state_, ChanOffset(keys, n, m), 16) =
                           [j \in 1..16 |-> rl_ret.calls[1].result.raw[j]
                                               * ProfileScale(m, "last_action", j)]]_vars

\* a build_state after a select_action wrote raw x 2 in the last-action channel
C26_Witness ==
    /\ rl_ret.op = "build_state" /\ rl_ret.exc = NoExc
    /\ rl.mode_.id = 4
    /\ rl.last_action_ = RawAction
    /\ rl.scaled_action_ = [i \in 1..16 |-> 3 * i]
    /\ Slice(rl.state_, 0, 16) = [i \in 1..16 |-> 2 * i]


(***************************************************************************)
(* onnxpolicy.hpp: MLPPolicy and LSTMPolicy                                *)
(*                                                                         *)
(* A session is what the loaded artifact declares: inputs and outputs,     *)
(* each a record [name, shape]; a dynamic dimension is -1 or 0.  Indexes   *)
(* are 1-based, 0 is "not found".  A value returned by Run is a record     *)
(* [is_tensor, shape, data].  Floats are integers, Unit per 1.0.           *)
(***************************************************************************)
Unit == 2

OrtException == "Ort::Exception"

clip_unit_upper(x) == IF x > Unit THEN Unit ELSE x

clip_unit(x) ==
    IF x < 0 - Unit THEN 0 - Unit
    ELSE IF x > Unit THEN Unit
    ELSE x

get_shape(session, idx, input) ==
    IF input THEN session.inputs[idx].shape ELSE session.outputs[idx].shape

get_name(session, idx, input) ==
    IF input THEN session.inputs[idx].name ELSE session.outputs[idx].name

value_or(x, fallback) == IF x > 0 THEN x ELSE fallback

Back(shape) == shape[Len(shape)]

PolResult(p, exc, out, ran) == [p |-> p, exc |-> exc, out |-> out, ran |-> ran]

MLPPolicy(session) ==
    IF Len(session.inputs) < 1 THEN [exc |-> RuntimeError, obj |-> NoObject]
    ELSE IF Len(session.outputs) < 1 THEN [exc |-> RuntimeError, obj |-> NoObject]
    ELSE
      LET in_shape == get_shape(session, 1, TRUE)
          state_dim == IF in_shape = <<>> THEN 0 - 1 ELSE value_or(Back(in_shape), 0 - 1)
      IN  IF state_dim <= 0 THEN [exc |-> RuntimeError, obj |-> NoObject]
          ELSE [exc |-> NoExc,
                obj |-> [kind |-> "MLPPolicy",
                         session_ |-> session,
                         input_name_ |-> get_name(session, 1, TRUE),
                         output_name_ |-> get_name(session, 1, FALSE),
                         batch_required_ |-> (in_shape # <<>> /\ in_shape[1] = 1),
                         state_dim_ |-> state_dim,
                         input_dims_template_ |-> <<1, state_dim>>]]

\* run is what session_.Run does with the bound inputs: [ok, outs]
mlp_inference(p, state, run) ==
    IF p.state_dim_ > 0 /\ Len(state) # p.state_dim_
    THEN PolResult(p, RuntimeError, <<>>, <<>>)
    ELSE
      LET input_tensor == [dims |-> p.input_dims_template_, data |-> state]
          ran == <<[names |-> <<p.input_name_>>, in_vals |-> <<input_tensor>>,
                    output_names |-> <<p.output_name_>>]>>
      IN  IF ~run.ok THEN PolResult(p, OrtException, <<>>, ran)
          ELSE IF Len(run.outs) # 1 \/ ~run.outs[1].is_tensor
          THEN PolResult(p, RuntimeError, <<>>, ran)
          ELSE PolResult(p, NoExc,
                         [i \in 1..Len(run.outs[1].data) |-> clip_unit(run.outs[1].data[i])],
                         ran)

state_candidates ==
    <<"state", "obs", "observation", "observations", "input", "input_0", "input0">>
h_in_candidates == <<"h_in", "hidden_in", "h0", "h", "input_1", "input1">>
c_in_candidates == <<"c_in", "cell_in", "c0", "c", "input_2", "input2">>
h_names == <<"h_out", "hn", "hidden", "h", "output_1", "output1">>
c_names == <<"c_out", "cn", "cell", "c", "output_2", "output2">>

\* std::unordered_map filled in declaration order: a later index overwrites
index_by_name(decls, nm) ==
    LET hits == {i \in 1..Len(decls) : decls[i].name = nm}
    IN  IF hits = {} THEN 0 ELSE CHOOSE i \in hits : \A j \in hits : j <= i

RECURSIVE pick_first_declared(_, _, _, _)
pick_first_declared(cands, expected_rank, session, k) ==
    IF k > Len(cands) THEN 0
    ELSE LET it == index_by_name(session.inputs, cands[k])
         IN  IF it = 0 THEN pick_first_declared(cands, expected_rank, session, k + 1)
             ELSE IF expected_rank >= 0
                     /\ Len(get_shape(session, it, TRUE)) # expected_rank
             THEN 0
             ELSE it

\* the loop of pick_with_rank from candidate k on; 0 is the throw
RECURSIVE pick_with_rank(_, _, _, _)
pick_with_rank(cands, expected_rank, session, k) ==
    IF k > Len(cands) THEN 0
    ELSE LET it == index_by_name(session.inputs, cands[k])
         IN  IF it = 0 THEN pick_with_rank(cands, expected_rank, session, k + 1)
             ELSE IF expected_rank >= 0
                     /\ Len(get_shape(session, it, TRUE)) # expected_rank
             THEN pick_with_rank(cands, expected_rank, session, k + 1)
             ELSE it

RECURSIVE Prod(_)
Prod(dims) == IF dims = <<>> THEN 1 ELSE dims[1] * Prod(Tail(dims))

mat_dims(shp) ==
    LET d == IF shp = <<>> THEN <<1>> ELSE shp
    IN  [i \in 1..Len(d) |-> value_or(d[i], 1)]

LSTMPolicy(session) ==
    LET n_inputs == Len(session.inputs)
        state_idx == pick_with_rank(state_candidates, 2, session, 1)
        h_idx == pick_with_rank(h_in_candidates, 3, session, 1)
        c_idx == pick_with_rank(c_in_candidates, 3, session, 1)
    IN  IF state_idx = 0 \/ h_idx = 0 \/ c_idx = 0
        THEN [exc |-> RuntimeError, obj |-> NoObject]
        ELSE
          LET h_dim == value_or(Back(get_shape(session, h_idx, TRUE)), 1)
              c_dim == value_or(Back(get_shape(session, c_idx, TRUE)), 1)
              state_dim == value_or(Back(get_shape(session, state_idx, TRUE)), 0 - 1)
              known == {state_idx, h_idx, c_idx}
          IN  IF state_dim <= 0 THEN [exc |-> RuntimeError, obj |-> NoObject]
              ELSE [exc |-> NoExc,
                    obj |-> [kind |-> "LSTMPolicy",
                             session_ |-> session,
                             input_names_ |-> [i \in 1..n_inputs |-> get_name(session, i, TRUE)],
                             output_names_ |-> [i \in 1..Len(session.outputs) |->
                                                  get_name(session, i, FALSE)],
                             state_idx_ |-> state_idx,
                             h_idx_ |-> h_idx,
                             c_idx_ |-> c_idx,
                             state_name_ |-> get_name(session, state_idx, TRUE),
                             h_dim_ |-> h_dim,
                             c_dim_ |-> c_dim,
                             state_dim_ |-> state_dim,
                             policy_h_in_ |-> Zeros(h_dim),
                             policy_c_in_ |-> Zeros(c_dim),
                             hc_dims_ |-> <<1, 1, h_dim>>,
                             cc_dims_ |-> <<1, 1, c_dim>>,
                             extra_input_dims_ |->
                                 [i \in 1..n_inputs |->
                                    IF i \in known THEN <<>>
                                    ELSE mat_dims(get_shape(session, i, TRUE))],
                             zero_holders_ |->
                                 [i \in 1..n_inputs |->
                                    IF i \in known THEN <<>>
                                    ELSE Zeros(Prod(mat_dims(get_shape(session, i, TRUE))))]]]

\* a try_update that clears the holder when no output matches
RECURSIVE try_update_or_clear(_, _, _, _, _, _)
try_update_or_clear(names, holder, expect_last, output_names, outs, k) ==
    IF k > Len(names) THEN Zeros(Len(holder))
    ELSE LET it == index_by_name([i \in 1..Len(output_names) |-> [name |-> output_names[i]]],
                                 names[k])
             next == try_update_or_clear(names, holder, expect_last, output_names, outs, k + 1)
         IN  IF it = 0 THEN next
             ELSE IF ~outs[it].is_tensor THEN next
             ELSE IF Len(outs[it].shape) # 3 THEN next
             ELSE IF expect_last > 0
                     /\ value_or(Back(outs[it].shape), expect_last) # expect_last
             THEN next
             ELSE outs[it].data

\* the loop of try_update from name k on; the result is the holder afterwards
RECURSIVE try_update(_, _, _, _, _, _)
try_update(names, holder, expect_last, output_names, outs, k) ==
    IF k > Len(names) THEN holder
    ELSE LET it == index_by_name([i \in 1..Len(output_names) |-> [name |-> output_names[i]]],
                                 names[k])
             next == try_update(names, holder, expect_last, output_names, outs, k + 1)
         IN  IF it = 0 THEN next
             ELSE IF ~outs[it].is_tensor THEN next
             ELSE IF Len(outs[it].shape) # 3 THEN next
             ELSE IF expect_last > 0
                     /\ value_or(Back(outs[it].shape), expect_last) # expect_last
             THEN next
             ELSE outs[it].data

update_hidden_skipped(p, outs) == p

update_hidden_from_outputs(p, outs) ==
    [p EXCEPT
       !.policy_h_in_ = try_update(h_names, p.policy_h_in_, p.h_dim_, p.output_names_, outs, 1),
       !.policy_c_in_ = try_update(c_names, p.policy_c_in_, p.c_dim_, p.output_names_, outs, 1)]

lstm_inference(p, state, run) ==
    IF p.state_dim_ > 0 /\ Len(state) # p.state_dim_
    THEN PolResult(p, RuntimeError, <<>>, <<>>)
    ELSE
      LET in_vals == [i \in 1..Len(p.input_names_) |->
                        IF i = p.state_idx_ THEN [dims |-> <<1, Len(state)>>, data |-> state]
                        ELSE IF i = p.h_idx_ THEN [dims |-> p.hc_dims_, data |-> p.policy_h_in_]
                        ELSE IF i = p.c_idx_ THEN [dims |-> p.cc_dims_, data |-> p.policy_c_in_]
                        ELSE [dims |-> p.extra_input_dims_[i], data |-> p.zero_holders_[i]]]
          ran == <<[names |-> p.input_names_, in_vals |-> in_vals,
                    output_names |-> p.output_names_]>>
      IN  IF ~run.ok THEN PolResult(p, OrtException, <<>>, ran)
          ELSE IF run.outs = <<>> THEN PolResult(p, RuntimeError, <<>>, ran)
          ELSE
            LET q == update_hidden_from_outputs(p, run.outs)
            IN  IF ~run.outs[1].is_tensor THEN PolResult(q, RuntimeError, <<>>, ran)
                ELSE PolResult(q, NoExc,
                               [i \in 1..Len(run.outs[1].data) |->
                                  clip_unit(run.outs[1].data[i])],
                               ran)

PolRet(op, exc, out, a, ran) ==
    [op |-> op, exc |-> exc, out |-> out, args |-> a, ran |-> ran]

\* p = MLPPolicy(path): the name is rebound only when the constructor returns
NewMLPPolicy(session) ==
    /\ \E r \in {MLPPolicy(session)} :
          /\ pol' = IF r.exc = NoExc THEN r.obj ELSE pol
          /\ pol_ret' = PolRet("MLPPolicy", r.exc, <<>>, <<session>>, <<>>)
    /\ UNCHANGED <<profile_vars, rl_vars, pc, wait_rounds, stop_rounds, robot_vars, ret, args, sent,
                   tripped, gains_ok_ever, disconn_polls>>

NewLSTMPolicy(session) ==
    /\ \E r \in {LSTMPolicy(session)} :
          /\ pol' = IF r.exc = NoExc THEN r.obj ELSE pol
          /\ pol_ret' = PolRet("LSTMPolicy", r.exc, <<>>, <<session>>, <<>>)
    /\ UNCHANGED <<profile_vars, rl_vars, pc, wait_rounds, stop_rounds, robot_vars, ret, args, sent,
                   tripped, gains_ok_ever, disconn_polls>>

PolicyInference(state, run) ==
    /\ pol # NoObject
    /\ \E r \in {IF pol.kind = "MLPPolicy" THEN mlp_inference(pol, state, run)
                 ELSE lstm_inference(pol, state, run)} :
          /\ pol' = r.p
          /\ pol_ret' = PolRet("inference", r.exc, r.out, <<state, run>>, r.ran)
    /\ UNCHANGED <<profile_vars, rl_vars, pc, wait_rounds, stop_rounds, robot_vars, ret, args, sent,
                   tripped, gains_ok_ever, disconn_polls>>


(***************************************************************************)
(* Policy runtimes: artifacts, runs and specification                      *)
(***************************************************************************)
StateWidth == 2

Decl(name, shape) == [name |-> name, shape |-> shape]
Tensor(shape, data) == [is_tensor |-> TRUE, shape |-> shape, data |-> data]
NonTensor == [is_tensor |-> FALSE, shape |-> <<>>, data |-> <<>>]

\* input declarations: canonical, alias, positional default and wrong-rank ones
InState == Decl("state", <<1, StateWidth>>)
InObs == Decl("obs", <<1, StateWidth>>)
InDefault0 == Decl("input", <<1, StateWidth>>)
InStateRank3 == Decl("state", <<1, 1, StateWidth>>)
InH == Decl("h_in", <<1, 1, 1>>)
InH0 == Decl("h0", <<1, 1, 1>>)
InDefault1 == Decl("input_1", <<1, 1, 1>>)
InHRank2 == Decl("h_in", <<1, 1>>)
InC == Decl("c_in", <<1, 1, 1>>)
InCDyn == Decl("c0", <<1, 1, 0 - 1>>)
InDefault2 == Decl("input_2", <<1, 1, 1>>)
InMask == Decl("mask", <<0 - 1, 2>>)

InputLists ==
    { <<>>,
      <<InState, InH, InC>>,
      <<InC, InH, InState>>,
      <<InObs, InState, InH, InC>>,
      <<InDefault0, InDefault1, InDefault2>>,
      <<InDefault2, InDefault1, InDefault0, InObs, InH0, InCDyn>>,
      <<InStateRank3, InObs, InH, InC>>,
      <<InState, InHRank2, InH0, InC>>,
      <<InState, InHRank2, InC>>,
      <<InState, InH>>,
      <<InStateRank3, InH, InC>>,
      <<InMask, InState, InH, InC>>,
      <<Decl("state", <<1, 0 - 1>>), InH, InC>>,
      <<Decl("state", <<1, 0>>), InH, InC>>,
      <<Decl("x", <<>>)>> }

OutAction == Decl("action", <<1, 2>>)
OutputLists ==
    { <<>>,
      <<OutAction>>,
      <<OutAction, Decl("h_out", <<1, 1, 1>>), Decl("c_out", <<1, 1, 1>>)>>,
      <<OutAction, Decl("cn", <<1, 1, 1>>), Decl("output_1", <<1, 1, 1>>)>> }

Sessions ==
    {[inputs |-> i, outputs |-> <<OutAction, Decl("h_out", <<1, 1, 1>>),
                                  Decl("c_out", <<1, 1, 1>>)>>] : i \in InputLists}
    \cup {[inputs |-> <<InState, InH, InC>>, outputs |-> o] : o \in OutputLists}
    \cup {[inputs |-> <<>>, outputs |-> <<>>]}

States == {Ones(StateWidth), <<1>>}

FirstOuts == {Tensor(<<1, 2>>, <<3, 0 - 3>>), NonTensor}
\* hidden and cell update values: matching, wrong rank, wrong width, no tensor
UpdateOuts ==
    { <<Tensor(<<1, 1, 1>>, <<1>>), Tensor(<<1, 1, 1>>, <<3>>)>>,
      <<Tensor(<<1, 1, 1>>, <<3>>), Tensor(<<1, 1, 1>>, <<1>>)>>,
      <<Tensor(<<1, 1>>, <<5>>), Tensor(<<1, 1, 1>>, <<1>>)>>,
      <<Tensor(<<1, 1, 1>>, <<1>>), Tensor(<<1, 1, 2>>, <<5, 5>>)>>,
      <<NonTensor, NonTensor>> }

\* what Run can return for n requested output names
Runs(n) ==
    {[ok |-> FALSE, outs |-> <<>>]}
    \cup {[ok |-> TRUE, outs |-> o] :
            o \in IF n = 0 THEN {<<>>}
                  ELSE IF n = 1 THEN {<<a>> : a \in FirstOuts}
                  ELSE {<<a>> \o u : a \in FirstOuts, u \in UpdateOuts}}

Requested(p) == IF p.kind = "MLPPolicy" THEN 1 ELSE Len(p.output_names_)

PolNewMLP == \E session \in Sessions : NewMLPPolicy(session)
PolNewLSTM == \E session \in Sessions : NewLSTMPolicy(session)
PolInference ==
    /\ pol # NoObject
    /\ \E state \in States, run \in Runs(Requested(pol)) : PolicyInference(state, run)

NextPolicy ==
    \/ PolNewMLP
    \/ PolNewLSTM
    \/ PolInference

SpecPolicy == Init /\ [][NextPolicy]_vars

\* recurrent runtimes next to the state builder
HiddenSessions ==
    {[inputs |-> <<InState, InH, InC>>, outputs |-> o] : o \in OutputLists \ {<<>>}}

HidNewLSTM == \E session \in HiddenSessions : NewLSTMPolicy(session)
HidInference ==
    /\ pol # NoObject
    /\ \E state \in States, run \in Runs(Requested(pol)) : PolicyInference(state, run)
HidAddMode == pol # NoObject /\ AddMode(ModeA2)
HidSetMode == pol # NoObject /\ \E i \in {None, Some(1)} : SetMode(i)

NextHidden ==
    \/ HidNewLSTM
    \/ HidInference
    \/ HidAddMode
    \/ HidSetMode

SpecHidden == Init /\ [][NextHidden]_vars


\* the declaration a role is bound to: the earliest candidate name, in list
\* order, that is declared with the expected rank; 0 if there is none
Resolve(decls, cands, rank) ==
    LET fits(k) == {i \in 1..Len(decls) :
                      decls[i].name = cands[k] /\ Len(decls[i].shape) = rank}
        ok == {k \in 1..Len(cands) : fits(k) # {}}
    IN  IF ok = {} THEN 0
        ELSE CHOOSE i \in fits(CHOOSE k \in ok : \A j \in ok : k <= j) : TRUE

\* the declared feature width of the state input, 0 if there is no such input
DeclaredWidth(op, session) ==
    LET i == IF op = "MLPPolicy" THEN (IF session.inputs = <<>> THEN 0 ELSE 1)
             ELSE Resolve(session.inputs, state_candidates, 2)
    IN  IF i = 0 THEN 0
        ELSE IF session.inputs[i].shape = <<>> THEN 0
        ELSE Back(session.inputs[i].shape)

Constructed(r) == r.op \in {"MLPPolicy", "LSTMPolicy"}

\* C27: for both policy variants, inference with a state whose length is not
\* the discovered width fails without running the network and leaves the
\* object, hidden and cell buffers included, as it was; with the right length
\* every element of a returned action lies in [-1, 1].
C27_InferenceWidth ==
    [][pol_ret'.op = "inference" =>
         /\ Len(pol_ret'.args[1]) # pol.state_dim_ =>
               (pol_ret'.exc # NoExc /\ pol_ret'.ran = <<>> /\ pol' = pol)
         /\ (Len(pol_ret'.args[1]) = pol.state_dim_ /\ pol_ret'.exc = NoExc) =>
               /\ Len(pol_ret'.ran) = 1
               /\ \A i \in 1..Len(pol_ret'.out) :
                     pol_ret'.out[i] >= 0 - Unit /\ pol_ret'.out[i] <= Unit]_vars

\* a recurrent runtime with non-zero buffers refused a state of the wrong length
C27_Witness ==
    /\ pol.kind = "LSTMPolicy"
    /\ pol.policy_h_in_ # Zeros(pol.h_dim_)
    /\ pol.policy_c_in_ # Zeros(pol.c_dim_)
    /\ pol_ret.op = "inference"
    /\ Len(pol_ret.args[1]) # pol.state_dim_
    /\ pol_ret.exc = RuntimeError
    /\ pol_ret.ran = <<>>

\* C28: both runtimes fail at construction, not at the first inference, when
\* the artifact declares zero inputs or zero outputs or when the feature
\* width of the state input does not resolve to a fixed positive integer.
C28_FailsAtConstruction ==
    (/\ Constructed(pol_ret)
     /\ \/ pol_ret.args[1].inputs = <<>>
        \/ pol_ret.args[1].outputs = <<>>
        \/ DeclaredWidth(pol_ret.op, pol_ret.args[1]) <= 0)
    => pol_ret.exc # NoExc


DeclSet(decls) == {decls[i] : i \in 1..Len(decls)}

\* the name pick_with_rank binds for a role, "" when it throws
PickedName(session, cands, rank) ==
    LET i == pick_with_rank(cands, rank, session, 1)
    IN  IF i = 0 THEN "" ELSE session.inputs[i].name

\* C29: the recurrent constructor binds each role (state rank 2, hidden rank
\* 3, cell rank 3) to the earliest candidate name, in list order, that the
\* artifact declares with the expected rank: a declared candidate of the wrong
\* rank is passed over, the positional default names come last in the lists,
\* the order of declaration in the artifact does not matter, and construction
\* fails when a role has no match.
C29_FirstMatchResolution ==
    pol_ret.op = "LSTMPolicy" =>
      LET decls == pol_ret.args[1].inputs
          s == Resolve(decls, state_candidates, 2)
          h == Resolve(decls, h_in_candidates, 3)
          c == Resolve(decls, c_in_candidates, 3)
      IN  /\ (s = 0 \/ h = 0 \/ c = 0) => pol_ret.exc # NoExc
          /\ (s # 0 /\ h # 0 /\ c # 0 /\ DeclaredWidth("LSTMPolicy", pol_ret.args[1]) > 0)
                => pol_ret.exc = NoExc
          /\ pol_ret.exc = NoExc =>
                (pol.state_idx_ = s /\ pol.h_idx_ = h /\ pol.c_idx_ = c)
          /\ \A other \in Sessions :
                DeclSet(other.inputs) = DeclSet(decls) =>
                   /\ PickedName(other, state_candidates, 2)
                         = PickedName(pol_ret.args[1], state_candidates, 2)
                   /\ PickedName(other, h_in_candidates, 3)
                         = PickedName(pol_ret.args[1], h_in_candidates, 3)
                   /\ PickedName(other, c_in_candidates, 3)
                         = PickedName(pol_ret.args[1], c_in_candidates, 3)

\* "h_in" is declared with rank 2 and passed over: the hidden input is "h0"
C29_Witness ==
    /\ pol_ret.op = "LSTMPolicy" /\ pol_ret.exc = NoExc
    /\ pol.session_ = pol_ret.args[1]
    /\ \E i \in 1..Len(pol.session_.inputs) :
          pol.session_.inputs[i].name = "h_in" /\ Len(pol.session_.inputs[i].shape) # 3
    /\ pol.input_names_[pol.h_idx_] = "h0"
    /\ pol.input_names_[pol.state_idx_] = "state"
    /\ pol.input_names_[pol.c_idx_] = "c_in"


\* the output a buffer is updated from: the earliest name, in list order, whose
\* returned value is a rank-3 tensor of the discovered width; 0 if none
MatchedOut(output_names, outs, names, width) ==
    LET fits(k) == {i \in 1..Len(output_names) :
                      /\ output_names[i] = names[k]
                      /\ outs[i].is_tensor
                      /\ Len(outs[i].shape) = 3
                      /\ Back(outs[i].shape) = width}
        ok == {k \in 1..Len(names) : fits(k) # {}}
    IN  IF ok = {} THEN 0
        ELSE CHOOSE i \in fits(CHOOSE k \in ok : \A j \in ok : k <= j) : TRUE

\* this step is a call op on the policy object (the state builder stands still)
PolicyCall(op) == pol_ret'.op = op /\ UNCHANGED rl_vars

\* this step is an inference whose network ran and returned outputs
Executed ==
    /\ PolicyCall("inference")
    /\ pol_ret'.ran # <<>>
    /\ pol_ret'.args[2].ok
    /\ pol_ret'.args[2].outs # <<>>

\* C30: on a recurrent runtime the hidden and cell values bound at an
\* inference are the buffers as the previous executed inference left them,
\* which are the matched hidden and cell outputs of that inference; they are
\* all zero after construction; and nothing but an executed inference or a
\* construction changes them, a mode switch of the state builder included.
C30_HiddenPersistence ==
    [][/\ (PolicyCall("LSTMPolicy") /\ pol_ret'.exc = NoExc) =>
            /\ pol'.policy_h_in_ = Zeros(pol'.h_dim_)
            /\ pol'.policy_c_in_ = Zeros(pol'.c_dim_)
       /\ (PolicyCall("inference") /\ pol.kind = "LSTMPolicy" /\ pol_ret'.ran # <<>>) =>
            /\ pol_ret'.ran[1].in_vals[pol.h_idx_] =
                  [dims |-> <<1, 1, pol.h_dim_>>, data |-> pol.policy_h_in_]
            /\ pol_ret'.ran[1].in_vals[pol.c_idx_] =
                  [dims |-> <<1, 1, pol.c_dim_>>, data |-> pol.policy_c_in_]
       /\ (Executed /\ pol.kind = "LSTMPolicy") =>
            LET outs == pol_ret'.args[2].outs
                mh == MatchedOut(pol.output_names_, outs, h_names, pol.h_dim_)
                mc == MatchedOut(pol.output_names_, outs, c_names, pol.c_dim_)
            IN  /\ mh # 0 => pol'.policy_h_in_ = outs[mh].data
                /\ mc # 0 => pol'.policy_c_in_ = outs[mc].data
       /\ (pol.kind = "LSTMPolicy" /\ pol' # pol) =>
            \/ PolicyCall("LSTMPolicy") /\ pol_ret'.exc = NoExc
            \/ Executed]_vars

\* an inference bound the non-zero hidden and cell values that the inference
\* before it returned, with a mode active in the state builder
C30_Witness ==
    /\ pol.kind = "LSTMPolicy"
    /\ pol_ret.op = "inference" /\ pol_ret.exc = NoExc
    /\ pol_ret.ran[1].in_vals[pol.h_idx_].data = <<1>>
    /\ pol_ret.ran[1].in_vals[pol.c_idx_].data = <<3>>
    /\ pol.policy_h_in_ = <<3>>
    /\ pol.policy_c_in_ = <<1>>
    /\ rl_ret.op = "set_mode" /\ ensure_mode_(rl)


\* C31: an executed inference whose outputs hold no rank-3 value of the
\* discovered width under a hidden (respectively cell) alias leaves the hidden
\* (respectively cell) buffer as it was; the two buffers are resolved
\* independently, so one is updated while the other is kept.
C31_UnmatchedLeftUnchanged ==
    [][(Executed /\ pol.kind = "LSTMPolicy") =>
         LET outs == pol_ret'.args[2].outs
             mh == MatchedOut(pol.output_names_, outs, h_names, pol.h_dim_)
             mc == MatchedOut(pol.output_names_, outs, c_names, pol.c_dim_)
         IN  /\ mh = 0 => pol'.policy_h_in_ = pol.policy_h_in_
             /\ mc = 0 => pol'.policy_c_in_ = pol.policy_c_in_
             /\ (mh # 0 /\ mc = 0) =>
                   (pol'.policy_h_in_ = outs[mh].data /\ pol'.policy_c_in_ = pol.policy_c_in_)
             /\ (mh = 0 /\ mc # 0) =>
                   (pol'.policy_c_in_ = outs[mc].data /\ pol'.policy_h_in_ = pol.policy_h_in_)]_vars

\* an inference replaced the hidden buffer and kept a non-zero cell buffer
C31_Witness ==
    /\ pol.kind = "LSTMPolicy"
    /\ pol_ret.op = "inference" /\ pol_ret.exc = NoExc
    /\ MatchedOut(pol.output_names_, pol_ret.args[2].outs, h_names, pol.h_dim_) # 0
    /\ MatchedOut(pol.output_names_, pol_ret.args[2].outs, c_names, pol.c_dim_) = 0
    /\ pol_ret.ran[1].in_vals[pol.h_idx_].data = <<3>>
    /\ pol.policy_h_in_ = <<1>>
    /\ pol_ret.ran[1].in_vals[pol.c_idx_].data = <<1>>
    /\ pol.policy_c_in_ = <<1>>


(***************************************************************************)
(* Recurrent runtime fed update outputs of several layers or steps         *)
(***************************************************************************)
\* rank-3 update values of the discovered width holding more than one row
StackedOuts ==
    { <<Tensor(<<2, 1, 1>>, <<1, 3>>), Tensor(<<1, 1, 1>>, <<1>>)>>,
      <<Tensor(<<1, 1, 1>>, <<3>>), Tensor(<<1, 2, 1>>, <<3, 1>>)>> }

ShapeRuns ==
    {[ok |-> TRUE, outs |-> <<a>> \o u] : a \in FirstOuts, u \in UpdateOuts \cup StackedOuts}

ShapeNewLSTM == \E session \in HiddenSessions : NewLSTMPolicy(session)
ShapeInference ==
    /\ pol # NoObject
    /\ Requested(pol) = 3
    /\ \E state \in States, run \in ShapeRuns : PolicyInference(state, run)

NextShape ==
    \/ ShapeNewLSTM
    \/ ShapeInference

SpecShape == Init /\ [][NextShape]_vars

\* C37: in every reachable state of a recurrent runtime the hidden buffer has
\* the hidden width discovered at construction and the cell buffer the
\* discovered cell width; no inference resizes them.
C37_BufferWidths ==
    pol.kind = "LSTMPolicy" =>
       /\ Len(pol.policy_h_in_) = pol.h_dim_
       /\ Len(pol.policy_c_in_) = pol.c_dim_


(***************************************************************************)
(* Mode switches, supplied previous actions and replaced profiles          *)
(***************************************************************************)
\* C36: every successful switch to a registered mode, set_mode to the active
\* id and the switch build_state performs for a command with a mode id
\* included, clears the state vector and the last-action buffer: after
\* set_mode both are all zero, and a build_state that switched shows zeros in
\* every older slot and in every channel missing from its inputs.
C36_SwitchClears ==
    [][/\ (rl_ret'.op = "set_mode" /\ Registered(rl, rl_args'[1])) =>
            LET m == ProfileOf(rl, rl_args'[1])
            IN  /\ rl_ret'.exc = NoExc
                /\ rl'.mode_ = m
                /\ rl'.state_ = Zeros(LayoutLen(m))
                /\ rl'.last_action_ = Zeros(16)
                /\ rl'.single_frame_ = Zeros(FrameLen(m))
                /\ frames' = <<>>
       /\ (Built /\ ensure_mode_(rl) /\ Registered(rl, rl_args'[2].mode_id)) =>
            LET m == ProfileOf(rl, rl_args'[2].mode_id)
                L == FrameLen(m)
                sk == m.stacked_obs_order
                nk == m.non_stacked_obs_order
            IN  /\ rl'.mode_ = m
                /\ frames' = <<rl'.single_frame_>>
                /\ \A k \in 1..(m.stack_size - 1) : Slot(rl'.state_, k, L) = Zeros(L)
                /\ \A n \in 1..Len(sk) :
                      Missing(sk[n], rl_args') =>
                         Slice(rl'.state_, ChanOffset(sk, n, m), ChanLen(sk[n], m))
                            = Zeros(ChanLen(sk[n], m))
                /\ \A n \in 1..Len(nk) :
                      Missing(nk[n], rl_args') =>
                         Slice(rl'.state_, m.stack_size * L + ChanOffset(nk, n, m),
                               ChanLen(nk[n], m)) = Zeros(ChanLen(nk[n], m))
                /\ rl_args'[3] = NoAction => rl'.last_action_ = Zeros(16)]_vars

\* a build_state whose command named the profile of depth 3, with no
\* observation: only the command is in the state vector
C36_Witness ==
    /\ rl_ret.op = "build_state" /\ rl_ret.exc = NoExc
    /\ rl_args[2].mode_id = Some(2) /\ rl.mode_.id = 2
    /\ Missing("ang_vel", rl_args) /\ Missing("lin_vel", rl_args)
    /\ Len(frames) = 1
    /\ Slice(rl.state_, 0, 21) = Zeros(21)
    /\ Slice(rl.state_, 21, 2) = <<6, 14>>
    /\ rl.last_action_ = Zeros(16)


\* the slice of the state vector that holds the last-action channel of m
LastActionSlice(state, m) ==
    LET sk == m.stacked_obs_order
        n == CHOOSE i \in 1..Len(sk) : sk[i] = "last_action"
    IN  Slice(state, ChanOffset(sk, n, m), 16)

HasLastAction(m) == \E i \in 1..Len(m.stacked_obs_order) : m.stacked_obs_order[i] = "last_action"

Stale(st) ==
    /\ ensure_mode_(st)
    /\ Registered(st, Some(st.mode_.id))
    /\ ProfileOf(st, Some(st.mode_.id)) # st.mode_

\* C40: add_mode that replaces the registered profile of the active id changes
\* only the registry; build_state and select_action keep using the old
\* profile (layout, scales, policy) until set_mode, or a command carrying the
\* id, switches to the new one.
C40_ReplaceKeepsActive ==
    [][/\ rl_ret'.op = "add_mode" =>
            /\ rl' = [rl EXCEPT !.modes_ = rl'.modes_]
            /\ frames' = frames
       /\ (Stale(rl) /\ BuiltSameMode) =>
            /\ rl'.mode_ = rl.mode_
            /\ Len(rl_ret'.out) = LayoutLen(rl.mode_)
            /\ \A n \in 1..Len(rl.mode_.stacked_obs_order) :
                  LET key == rl.mode_.stacked_obs_order[n]
                  IN  ~Missing(key, rl_args') =>
                         Slice(rl'.state_, ChanOffset(rl.mode_.stacked_obs_order, n, rl.mode_),
                               ChanLen(key, rl.mode_)) = Written(key, rl_args', rl', rl.mode_)
       /\ (Stale(rl) /\ rl_ret'.op = "select_action" /\ rl_ret'.exc = NoExc) =>
            /\ rl'.mode_ = rl.mode_
            /\ rl_ret'.calls[1].policy = rl.mode_.policy
            /\ \A i \in 1..16 :
                  rl_ret'.out[i] = rl_ret'.calls[1].result.raw[i] * rl.mode_.action_scale[i]
       /\ (Stale(rl) /\ rl_ret'.op = "set_mode" /\ rl_args'[1] = Some(rl.mode_.id)) =>
            (rl'.mode_ = ProfileOf(rl, rl_args'[1]) /\ ~Stale(rl'))
       /\ (Stale(rl) /\ Built /\ rl_args'[2].mode_id = Some(rl.mode_.id)) =>
            (rl'.mode_ = ProfileOf(rl, rl_args'[2].mode_id) /\ ~Stale(rl'))]_vars

\* the profile of id 1 was replaced while active: select_action still called
\* the old policy and scaled by the old action scale
C40_Witness ==
    /\ Stale(rl)
    /\ rl.mode_ = ModeA /\ ProfileOf(rl, Some(1)) = ModeA2
    /\ rl_ret.op = "select_action" /\ rl_ret.exc = NoExc
    /\ rl_ret.calls[1].policy = "policy_a"
    /\ rl_ret.out = RawAction
    /\ Len(rl.state_) = 7


(***************************************************************************)
(* Joint limits: boundaries and near-limit zones                           *)
(***************************************************************************)
\* the velocity of leg joint j in frame o is below the threshold in magnitude
Slow(o, j) ==
    /\ o.dof_vel[vel_index(j)] > -vel_th
    /\ o.dof_vel[vel_index(j)] < vel_th

\* the call went on to the joint limits of the last-known frame
ReachedLimits == ret.op = "check_safety" /\ ret.why # "conn_or_emergency"
                    /\ ret.exc # InvalidArgument

\* C34: with the velocity of every leg joint below the threshold in magnitude,
\* a position exactly at min + margin or exactly at max - margin does not trip
\* check_safety, while a position strictly below min + margin or strictly above
\* max - margin trips, for every leg joint.
C34_BoundaryPositions ==
    ReachedLimits =>
       /\ \A j \in 1..num_joints :
             (Slow(obs, j) /\ (obs.dof_pos[j] < lo_pos \/ obs.dof_pos[j] > hi_pos))
                => (ret.exc = EStopError /\ ret.why = "joint_limit")
       /\ (\A j \in 1..num_joints :
              Slow(obs, j) /\ obs.dof_pos[j] >= lo_pos /\ obs.dof_pos[j] <= hi_pos)
                => ret.exc = NoExc

\* the last joint exactly at min + margin, at rest, the others in range:
\* check_safety returned normally
C34_Witness ==
    /\ ret.op = "check_safety" /\ ret.exc = NoExc
    /\ obs.dof_pos[num_joints] = lo_pos
    /\ \A j \in 1..num_joints : Slow(obs, j)
    /\ \A j \in 1..(num_joints - 1) : obs.dof_pos[j] = 0


ZoneGetObs ==
    \E m \in ZoneReqs : GetObs(m[1], m[2]) /\ Env(LifeDisconnPolls, LifeMissed)
ZoneCheckSafety ==
    \E sf \in {NominalF, EmergencyF} :
        CheckSafety(sf, NominalR) /\ Env(LifeDisconnPolls, LifeMissed)
NextZone ==
    \/ Construct
    \/ WaitTimeout
    \/ ZoneGetObs
    \/ ZoneCheckSafety

SpecZone == Init /\ [][NextZone]_vars

\* every leg joint of frame o is inside the margin-shrunk bounds
InsideBounds(o) == \A j \in 1..num_joints : ~OutOfBounds(o.dof_pos[j])

\* leg joint j is inside a near-limit zone, the inner edge excluded on both
\* sides, and moves towards that limit faster than the threshold
ZoneTrip(o, j) ==
    \/ (o.dof_pos[j] < lo_pos + vel_margin /\ o.dof_vel[vel_index(j)] < 0 - vel_th)
    \/ (o.dof_pos[j] > hi_pos - vel_margin /\ o.dof_vel[vel_index(j)] > vel_th)

\* C33: with every leg joint inside the margin-shrunk bounds, check_safety
\* trips on the joint limits exactly when some leg joint is inside a
\* near-limit zone and moves further towards that limit faster than the
\* threshold, the lower and the upper zone ending alike at their inner edge;
\* the velocity is the joint's own channel, and wheel velocities never trip.
C33_NearLimitVelocity ==
    (ReachedLimits /\ InsideBounds(obs)) =>
       ((ret.exc = EStopError /\ ret.why = "joint_limit")
           <=> \E j \in 1..num_joints : ZoneTrip(obs, j))

(***************************************************************************)
(* Specification SpecMissed: rejected replies over the life of one Robot   *)
(***************************************************************************)
MisGetObs ==
    \E m \in ConnReqs : GetObs(m[1], m[2]) /\ Env(LifeDisconnPolls, MaxMissed)
MisCheckSafety == CheckSafety(NominalF, NominalR) /\ Env(LifeDisconnPolls, MaxMissed)
MisSetGains == SetGains(GoodKp, GoodKd)
MisDoAction ==
    \E t \in BOOLEAN :
        DoAction(Zeros(last_action_len), FALSE, t, NominalF, NominalR)
            /\ Env(LifeDisconnPolls, MaxMissed)
NextMissed ==
    \/ Construct
    \/ WaitTimeout
    \/ MisGetObs
    \/ MisCheckSafety
    \/ MisSetGains
    \/ MisDoAction

SpecMissed == Init /\ [][NextMissed]_vars

\* the number of rejected replies that reaches the timeout
MissedLimit == cli_disconn_timeout_ms \div poll_period_ms

\* the call got as far as the timeout test of check_safety
ReachedTimeoutTest(r) ==
    \/ r.op = "check_safety" /\ r.exc # InvalidArgument
    \/ r.op = "do_action" /\ r.exc # InvalidArgument /\ r.why \notin {"usage", "gains"}

ModeConfigError == "ModeConfigError"
KeyError == "KeyError"

\* the Python values a configuration holds, one field name per type; floats
\* are written as integers
PyAbsent == [kind |-> "absent"]
PyNone == [kind |-> "none"]
PyInt(v) == [kind |-> "int", v |-> v]
PyBool(b) == [kind |-> "bool", b |-> b]
PyStr(s) == [kind |-> "str", s |-> s]
PySeq(items) == [kind |-> "seq", items |-> items]

get_obs_to_length_map ==
    [k \in {"dof_pos", "dof_vel", "lin_vel", "ang_vel", "proj_grav", "last_action",
            "height_map"} |->
        CASE k = "dof_pos" -> 12
          [] k = "dof_vel" -> 16
          [] k = "lin_vel" -> 3
          [] k = "ang_vel" -> 3
          [] k = "proj_grav" -> 3
          [] k = "last_action" -> 16
          [] k = "height_map" -> 144]

\* py::isinstance<py::int_> holds for a Python bool as well
is_number(h) == h.kind \in {"int", "bool"}

is_list_or_tuple(h) == h.kind = "seq"

\* py::cast<double> of a number
cast_double(h) == IF h.kind = "bool" THEN (IF h.b THEN 1 ELSE 0) ELSE h.v

\* a normalisation that does not compare the length
get_proper_scale_form_unchecked(scale, length) ==
    IF is_number(scale)
    THEN [exc |-> NoExc, v |-> [i \in 1..length |-> cast_double(scale)]]
    ELSE IF is_list_or_tuple(scale)
    THEN IF \E i \in 1..Len(scale.items) : scale.items[i].kind # "int"
         THEN [exc |-> ModeConfigError, v |-> <<>>]
         ELSE [exc |-> NoExc, v |-> [i \in 1..Len(scale.items) |-> scale.items[i].v]]
    ELSE [exc |-> ModeConfigError, v |-> <<>>]

\* a number is repeated length times; a list or tuple must hold numbers only
\* (no bool) and exactly length of them
get_proper_scale_form(scale, length) ==
    IF is_number(scale)
    THEN [exc |-> NoExc, v |-> [i \in 1..length |-> cast_double(scale)]]
    ELSE IF is_list_or_tuple(scale)
    THEN IF \E i \in 1..Len(scale.items) : scale.items[i].kind # "int"
         THEN [exc |-> ModeConfigError, v |-> <<>>]
         ELSE IF Len(scale.items) # length
         THEN [exc |-> ModeConfigError, v |-> <<>>]
         ELSE [exc |-> NoExc, v |-> [i \in 1..Len(scale.items) |-> scale.items[i].v]]
    ELSE [exc |-> ModeConfigError, v |-> <<>>]

\* the lambda of lines 193-212 for one name of an order
validate_and_norm_obs(name, obs_scale_in) ==
    IF name = "command" THEN [exc |-> NoExc, store |-> FALSE, v |-> <<>>]
    ELSE IF name \notin DOMAIN get_obs_to_length_map
    THEN [exc |-> KeyError, store |-> FALSE, v |-> <<>>]
    ELSE LET length == get_obs_to_length_map[name]
             this_obs_scale == IF name \in DOMAIN obs_scale_in THEN obs_scale_in[name]
                               ELSE PyNone
         IN  IF this_obs_scale.kind = "none"
             THEN [exc |-> NoExc, store |-> TRUE, v |-> Ones(length)]
             ELSE LET r == get_proper_scale_form(this_obs_scale, length)
                  IN  [exc |-> r.exc, store |-> r.exc = NoExc, v |-> r.v]

\* the loops of lines 213-214 from position k of the names, acc being obs_scale
RECURSIVE norm_orders(_, _, _, _)
norm_orders(names, obs_scale_in, k, acc) ==
    IF k > Len(names) THEN [exc |-> NoExc, obs_scale |-> acc]
    ELSE LET r == validate_and_norm_obs(names[k], obs_scale_in)
         IN  IF r.exc # NoExc THEN [exc |-> r.exc, obs_scale |-> acc]
             ELSE norm_orders(names, obs_scale_in, k + 1,
                              IF r.store
                              THEN [x \in DOMAIN acc \cup {names[k]} |->
                                       IF x = names[k] THEN r.v ELSE acc[x]]
                              ELSE acc)

\* std::tolower over the characters, for the strings the configurations use
ToLower(s) ==
    CASE s = "MLP" -> "mlp"
      [] s = "LSTM" -> "lstm"
      [] s = "Lstm" -> "lstm"
      [] s = ".ONNX" -> ".onnx"
      [] OTHER -> s

\* lines 112-226: the fields of the Mode before the policy is looked at
mode_fields(cfg) ==
    LET bad == [exc |-> ModeConfigError, m |-> NoObject]
    IN  IF cfg.id.kind \in {"absent", "none"} THEN bad
        ELSE IF cfg.id.kind = "str" THEN bad
        ELSE IF cfg.id.v < 1 \/ cfg.id.v > 16 THEN bad
        ELSE IF cfg.cmd_vector_length.kind = "str" THEN bad
        ELSE
          LET cmd_vector_length == IF cfg.cmd_vector_length.kind = "absent" THEN 0
                                   ELSE cfg.cmd_vector_length.v
              obs_scale_in == cfg.obs_scale
              cmd_scale_obj == IF "command" \in DOMAIN obs_scale_in
                               THEN obs_scale_in["command"] ELSE PyNone
          IN  IF cmd_vector_length < 0 THEN bad
              ELSE
                LET cmd_scale == IF cmd_scale_obj.kind = "none"
                                 THEN [exc |-> NoExc, v |-> Ones(cmd_vector_length)]
                                 ELSE get_proper_scale_form(cmd_scale_obj, cmd_vector_length)
                    last_action_len_ == get_obs_to_length_map["last_action"]
                    action_scale == IF cfg.action_scale.kind \in {"absent", "none"}
                                    THEN [exc |-> NoExc, v |-> Ones(last_action_len_)]
                                    ELSE get_proper_scale_form(cfg.action_scale,
                                                               last_action_len_)
                IN  IF cmd_scale.exc # NoExc THEN bad
                    ELSE IF action_scale.exc # NoExc THEN bad
                    ELSE IF Len(action_scale.v) # last_action_len_ THEN bad
                    ELSE
                      LET normed == norm_orders(cfg.stacked_obs_order
                                                   \o cfg.non_stacked_obs_order,
                                                obs_scale_in, 1, EmptyMap)
                          stack_size == IF cfg.stack_size.kind = "absent" THEN 1
                                        ELSE cfg.stack_size.v
                      IN  IF normed.exc # NoExc THEN [exc |-> normed.exc, m |-> NoObject]
                          ELSE IF cfg.stack_size.kind = "str" THEN bad
                          ELSE IF stack_size < 1 THEN bad
                          ELSE [exc |-> NoExc,
                                m |-> [id |-> cfg.id.v,
                                       stacked_obs_order |-> cfg.stacked_obs_order,
                                       non_stacked_obs_order |-> cfg.non_stacked_obs_order,
                                       obs_scale |-> normed.obs_scale,
                                       action_scale |-> action_scale.v,
                                       stack_size |-> stack_size,
                                       cmd_vector_length |-> cmd_vector_length,
                                       cmd_scale |-> cmd_scale.v]]

\* lines 270-281: the length of the state the policy is validated with
RECURSIVE sum_lengths(_, _, _)
sum_lengths(names, lens, k) ==
    IF k > Len(names) THEN 0 ELSE lens[names[k]] + sum_lengths(names, lens, k + 1)

mode_state_len(m) ==
    LET lens == [k \in DOMAIN get_obs_to_length_map \cup {"command"} |->
                    IF k = "command" THEN m.cmd_vector_length
                    ELSE get_obs_to_length_map[k]]
    IN  sum_lengths(m.stacked_obs_order, lens, 1) * m.stack_size
            + sum_lengths(m.non_stacked_obs_order, lens, 1)

\* policy.inference(state), on either policy class
policy_inference(p, state, run) ==
    IF p.kind = "MLPPolicy" THEN mlp_inference(p, state, run)
    ELSE lstm_inference(p, state, run)

PolicyCallRec(op, exc, state, ran, out) ==
    [op |-> op, exc |-> exc, state |-> state, ran |-> ran, out |-> out]

\* a validation that runs on a policy it then throws away
validate_policy_discarded(policy, n, run) ==
    LET r == policy_inference(policy, Zeros(n), run)
        call == PolicyCallRec("inference", r.exc, Zeros(n), r.ran, r.out)
    IN  IF r.exc # NoExc THEN [exc |-> ModeConfigError, p |-> policy, call |-> call]
        ELSE IF Len(r.out) # get_obs_to_length_map["last_action"]
        THEN [exc |-> ModeConfigError, p |-> policy, call |-> call]
        ELSE [exc |-> NoExc, p |-> policy, call |-> call]

\* lines 283-302: one inference on zeros; any exception of it, and an output
\* whose length is not that of last_action, becomes a ModeConfigError
validate_policy(policy, n, run) ==
    LET r == policy_inference(policy, Zeros(n), run)
        call == PolicyCallRec("inference", r.exc, Zeros(n), r.ran, r.out)
    IN  IF r.exc # NoExc THEN [exc |-> ModeConfigError, p |-> r.p, call |-> call]
        ELSE IF Len(r.out) # get_obs_to_length_map["last_action"]
        THEN [exc |-> ModeConfigError, p |-> r.p, call |-> call]
        ELSE [exc |-> NoExc, p |-> r.p, call |-> call]

\* Mode(mode_cfg): fs is the file system (what is at a path and the network an
\* .onnx file holds), run what the network returns in the validation
Mode(cfg, fs, run) ==
    LET f == mode_fields(cfg)
        fail(e) == [exc |-> e, obj |-> NoObject, calls |-> <<>>]
    IN  IF f.exc # NoExc THEN fail(f.exc)
        ELSE IF cfg.policy_path.kind \in {"absent", "none"} THEN fail(ModeConfigError)
        ELSE
          LET p == fs[cfg.policy_path.s]
              policy_type == IF cfg.policy_type.kind \in {"absent", "none"} THEN "MLP"
                             ELSE cfg.policy_type.s
              type_lower == ToLower(policy_type)
          IN  IF ~p.exists THEN fail(RuntimeError)
              ELSE IF ~p.regular THEN fail(RuntimeError)
              ELSE IF ToLower(p.ext) # ".onnx" THEN fail(ModeConfigError)
              ELSE IF type_lower \notin {"mlp", "lstm"} THEN fail(ModeConfigError)
              ELSE
                LET made == IF type_lower = "mlp" THEN MLPPolicy(p.session)
                            ELSE LSTMPolicy(p.session)
                    ctor == PolicyCallRec(IF type_lower = "mlp" THEN "MLPPolicy"
                                          ELSE "LSTMPolicy",
                                          made.exc, <<>>, <<>>, <<>>)
                IN  IF made.exc # NoExc
                    THEN [exc |-> made.exc, obj |-> NoObject, calls |-> <<ctor>>]
                    ELSE
                      LET v == validate_policy(made.obj, mode_state_len(f.m), run)
                      IN  [exc |-> v.exc,
                           obj |-> IF v.exc # NoExc THEN NoObject
                                   ELSE [k \in DOMAIN f.m \cup {"policy", "policy_path",
                                                               "policy_type"} |->
                                           CASE k = "policy" -> v.p
                                             [] k = "policy_path" -> cfg.policy_path.s
                                             [] k = "policy_type" -> policy_type
                                             [] OTHER -> f.m[k]],
                           calls |-> <<ctor, v.call>>]

\* mode = Mode(cfg): the name is rebound only when the constructor returns
NewMode(cfg, fs, run) ==
    /\ \E r \in {Mode(cfg, fs, run)} :
          /\ profile' = IF r.exc = NoExc THEN r.obj ELSE profile
          /\ profile_ret' = [op |-> "Mode", exc |-> r.exc, out |-> <<>>, cfg |-> cfg,
                             state |-> <<>>, run |-> run, calls |-> r.calls]
    /\ UNCHANGED <<pol_vars, rl_vars, pc, wait_rounds, stop_rounds, robot_vars, ret, args,
                   sent, tripped, gains_ok_ever, disconn_polls>>

\* mode.policy.inference(state), the call select_action makes through the
\* policy handle it cached from the mode
ModePolicyInference(state, run) ==
    /\ profile # NoObject
    /\ \E r \in {policy_inference(profile.policy, state, run)} :
          /\ profile' = [profile EXCEPT !.policy = r.p]
          /\ profile_ret' = [op |-> "inference", exc |-> r.exc, out |-> r.out,
                             cfg |-> NoObject, state |-> state, run |-> run,
                             calls |-> <<PolicyCallRec("inference", r.exc, state, r.ran,
                                                       r.out)>>]
    /\ UNCHANGED <<pol_vars, rl_vars, pc, wait_rounds, stop_rounds, robot_vars, ret, args,
                   sent, tripped, gains_ok_ever, disconn_polls>>

(***************************************************************************)
(* Specification SpecProfile: loading profiles and inferring through them  *)
(***************************************************************************)
\* networks: a feed-forward and a recurrent one over a state of width w
MlpNet(w) ==
    [inputs |-> <<Decl("obs", <<1, w>>)>>,
     outputs |-> <<Decl("action", <<1, 16>>)>>]
LstmNet(w) ==
    [inputs |-> <<Decl("state", <<1, w>>), InH, InC>>,
     outputs |-> <<Decl("action", <<1, 16>>), Decl("h_out", <<1, 1, 1>>),
                   Decl("c_out", <<1, 1, 1>>)>>]
NoNet == [inputs |-> <<>>, outputs |-> <<>>]

FileAt(exists, regular, ext, session) ==
    [exists |-> exists, regular |-> regular, ext |-> ext, session |-> session]

\* the file system: what is at each path a configuration names
Files ==
    [path \in {"mlp3.onnx", "lstm3.onnx", "mlp8.ONNX", "empty.onnx", "missing.onnx",
               "dir.onnx", "notes.txt"} |->
        CASE path = "mlp3.onnx" -> FileAt(TRUE, TRUE, ".onnx", MlpNet(3))
          [] path = "lstm3.onnx" -> FileAt(TRUE, TRUE, ".onnx", LstmNet(3))
          [] path = "mlp8.ONNX" -> FileAt(TRUE, TRUE, ".ONNX", MlpNet(8))
          [] path = "empty.onnx" -> FileAt(TRUE, TRUE, ".onnx", NoNet)
          [] path = "missing.onnx" -> FileAt(FALSE, FALSE, ".onnx", NoNet)
          [] path = "dir.onnx" -> FileAt(TRUE, FALSE, ".onnx", NoNet)
          [] path = "notes.txt" -> FileAt(TRUE, TRUE, ".txt", NoNet)]

\* what a network returns: an action of 16 or of 2 values, with hidden value h
\* and cell value c when it is recurrent
RunOf(recurrent, width, h, c) ==
    [ok |-> TRUE,
     outs |-> <<Tensor(<<1, width>>, Ones(width))>>
              \o (IF recurrent
                  THEN <<Tensor(<<1, 1, 1>>, <<h>>), Tensor(<<1, 1, 1>>, <<c>>)>>
                  ELSE <<>>)]
FailedRun == [ok |-> FALSE, outs |-> <<>>]

Recurrent(cfg) == cfg.policy_type.kind = "str" /\ ToLower(cfg.policy_type.s) = "lstm"

\* runs of the validation: hidden 7 and cell 9
ValidationRuns(cfg) ==
    {RunOf(Recurrent(cfg), w, 7, 9) : w \in {16, 2}} \cup {FailedRun}
\* runs in the control loop: hidden 4 and cell 6
LoopRuns(p) == {RunOf(p.kind = "LSTMPolicy", 16, 4, 6), FailedRun}

Ints(s) == [i \in 1..Len(s) |-> PyInt(s[i])]

BaseCfg ==
    [id |-> PyInt(3),
     stacked_obs_order |-> <<"ang_vel">>,
     non_stacked_obs_order |-> <<>>,
     cmd_vector_length |-> PyAbsent,
     obs_scale |-> EmptyMap,
     action_scale |-> PyAbsent,
     stack_size |-> PyAbsent,
     policy_path |-> PyStr("mlp3.onnx"),
     policy_type |-> PyAbsent]
LstmCfg ==
    [BaseCfg EXCEPT !.policy_path = PyStr("lstm3.onnx"), !.policy_type = PyStr("LSTM")]
WideCfg ==
    [BaseCfg EXCEPT !.stack_size = PyInt(2),
                    !.non_stacked_obs_order = <<"command">>,
                    !.cmd_vector_length = PyInt(2),
                    !.obs_scale = [k \in {"command"} |-> PySeq(Ints(<<2, 3>>))],
                    !.policy_path = PyStr("mlp8.ONNX")]

\* a scale as a configuration can give it for a channel of length 3
ScaleForms ==
    {PyInt(2), PySeq(Ints(<<2, 3, 4>>)), PySeq(Ints(<<2, 3>>)), PySeq(Ints(<<2, 3, 4, 5>>)),
     PySeq(<<PyInt(1), PyBool(TRUE), PyInt(1)>>), PyStr("2"), PyNone}

ObsScales ==
    {[k \in {"ang_vel"} |-> s] : s \in ScaleForms}
    \cup {[k \in {"lin_vel"} |-> PySeq(Ints(<<2, 3>>))],
          [k \in {"bogus"} |-> PyInt(1)],
          [k \in {"command"} |-> PySeq(Ints(<<1>>))]}

\* c and every configuration that differs from c in one field
Variations(c) ==
    {c}
    \cup {[c EXCEPT !.id = x] :
            x \in {PyAbsent, PyNone, PyStr("3"), PyInt(0), PyInt(17), PyInt(1), PyInt(16)}}
    \cup {[c EXCEPT !.obs_scale = x] : x \in ObsScales}
    \cup {[c EXCEPT !.action_scale = x] :
            x \in {PyInt(2), PyNone, PySeq(Ints([i \in 1..16 |-> 3])),
                   PySeq(Ints([i \in 1..15 |-> 3]))}}
    \cup {[c EXCEPT !.stacked_obs_order = x] :
            x \in {<<"ang_vel", "bogus">>, <<"bogus">>, <<"ang_vel", "proj_grav">>}}
    \cup {[c EXCEPT !.stack_size = x] :
            x \in {PyInt(0 - 1), PyInt(0), PyInt(1), PyInt(2), PyStr("2")}}
    \cup {[c EXCEPT !.cmd_vector_length = x] :
            x \in {PyInt(0 - 1), PyInt(0), PyInt(2), PyStr("2")}}
    \cup {[c EXCEPT !.policy_type = x] :
            x \in {PyStr("mlp"), PyStr("MLP"), PyStr("Lstm"), PyStr("lstm"), PyStr("gru"),
                   PyNone}}
    \cup {[c EXCEPT !.policy_path = x] :
            x \in {PyAbsent} \cup {PyStr(path) : path \in DOMAIN Files}}

Configs ==
    Variations(BaseCfg)
    \cup {LstmCfg,
          [LstmCfg EXCEPT !.policy_type = PyStr("Lstm")],
          [LstmCfg EXCEPT !.policy_path = PyStr("mlp3.onnx")],
          [LstmCfg EXCEPT !.obs_scale = [k \in {"ang_vel"} |-> PySeq(Ints(<<2, 3>>))]],
          WideCfg,
          [WideCfg EXCEPT !.obs_scale = [k \in {"command"} |-> PySeq(Ints(<<2, 3, 4>>))]],
          [WideCfg EXCEPT !.stack_size = PyInt(0)],
          [WideCfg EXCEPT !.policy_path = PyStr("mlp3.onnx")]}

ProfNewMode ==
    \E cfg \in Configs : \E run \in ValidationRuns(cfg) : NewMode(cfg, Files, run)
ProfInference ==
    /\ profile # NoObject
    /\ \E run \in LoopRuns(profile.policy) :
          ModePolicyInference(Ones(mode_state_len(profile)), run)

NextProfile ==
    \/ ProfNewMode
    \/ ProfInference

SpecProfile == Init /\ [][NextProfile]_vars

\* the channels a configuration references
ChannelsOf(cfg) ==
    {cfg.stacked_obs_order[i] : i \in 1..Len(cfg.stacked_obs_order)}
    \cup {cfg.non_stacked_obs_order[i] : i \in 1..Len(cfg.non_stacked_obs_order)}

CmdLen(cfg) == IF cfg.cmd_vector_length.kind = "int" THEN cfg.cmd_vector_length.v ELSE 0

WrongLength(scale, n) == scale.kind = "seq" /\ Len(scale.items) # n

\* a configuration with one of the faults: a scale vector of the wrong length
\* for a referenced channel, the command or the action; a channel that is not
\* registered; an id outside 1..16; a stack depth below 1; a policy type that
\* is neither mlp nor lstm
Malformed(cfg) ==
    \/ \E ch \in ChannelsOf(cfg) \cap DOMAIN get_obs_to_length_map \cap DOMAIN cfg.obs_scale :
          WrongLength(cfg.obs_scale[ch], get_obs_to_length_map[ch])
    \/ /\ "command" \in DOMAIN cfg.obs_scale
       /\ cfg.cmd_vector_length.kind # "str"
       /\ WrongLength(cfg.obs_scale["command"], CmdLen(cfg))
    \/ WrongLength(cfg.action_scale, get_obs_to_length_map["last_action"])
    \/ \E ch \in ChannelsOf(cfg) : ch \notin DOMAIN get_obs_to_length_map \cup {"command"}
    \/ cfg.id.kind = "int" /\ (cfg.id.v < 1 \/ cfg.id.v > 16)
    \/ cfg.stack_size.kind = "int" /\ cfg.stack_size.v < 1
    \/ cfg.policy_type.kind = "str" /\ ToLower(cfg.policy_type.s) \notin {"mlp", "lstm"}

\* every scale vector of a Mode has the length of its channel
ScalesExact(m) ==
    /\ Len(m.action_scale) = get_obs_to_length_map["last_action"]
    /\ Len(m.cmd_scale) = m.cmd_vector_length
    /\ \A ch \in DOMAIN m.obs_scale : Len(m.obs_scale[ch]) = get_obs_to_length_map[ch]
    /\ \A i \in 1..Len(m.stacked_obs_order) :
          m.stacked_obs_order[i] \in DOMAIN m.obs_scale \cup {"command"}
    /\ \A i \in 1..Len(m.non_stacked_obs_order) :
          m.non_stacked_obs_order[i] \in DOMAIN m.obs_scale \cup {"command"}

FullStateLen(cfg) ==
    LET lens == [k \in DOMAIN get_obs_to_length_map \cup {"command"} |->
                    IF k = "command" THEN CmdLen(cfg) ELSE get_obs_to_length_map[k]]
        depth == IF cfg.stack_size.kind = "int" THEN cfg.stack_size.v ELSE 1
    IN  depth * sum_lengths(cfg.stacked_obs_order, lens, 1)
            + sum_lengths(cfg.non_stacked_obs_order, lens, 1)

\* C38: a load that constructed its policy made exactly one inference call on
\* it, with the all-zero state of the profile's full state length, and it
\* succeeds exactly when that call returned 16 values (it raises
\* ModeConfigError otherwise); on a recurrent policy the first inference
\* through the loaded profile binds the hidden and cell values that the
\* validation run returned.
C38_ValidationInference ==
    [][/\ (/\ profile_ret'.op = "Mode"
           /\ profile_ret'.calls # <<>>
           /\ profile_ret'.calls[1].exc = NoExc) =>
            /\ Len(profile_ret'.calls) = 2
            /\ profile_ret'.calls[2].op = "inference"
            /\ profile_ret'.calls[2].state = Zeros(FullStateLen(profile_ret'.cfg))
            /\ profile_ret'.exc = NoExc <=>
                  /\ profile_ret'.calls[2].exc = NoExc
                  /\ Len(profile_ret'.calls[2].out) = 16
            /\ profile_ret'.exc \in {NoExc, ModeConfigError}
       /\ (/\ profile_ret.op = "Mode"
           /\ profile_ret.exc = NoExc
           /\ profile.policy.kind = "LSTMPolicy"
           /\ profile_ret'.op = "inference"
           /\ profile_ret'.calls[1].ran # <<>>) =>
            LET p == profile.policy
                outs == profile_ret.run.outs
                mh == MatchedOut(p.output_names_, outs, h_names, p.h_dim_)
                mc == MatchedOut(p.output_names_, outs, c_names, p.c_dim_)
                bound == profile_ret'.calls[1].ran[1].in_vals
            IN  /\ mh # 0 => bound[p.h_idx_].data = outs[mh].data
                /\ mc # 0 => bound[p.c_idx_].data = outs[mc].data]_vars

\* an inference through a recurrent profile bound the hidden value 7 and the
\* cell value 9 of the validation run, and left the values of its own run
C38_Witness ==
    /\ profile # NoObject
    /\ profile.policy.kind = "LSTMPolicy"
    /\ profile_ret.op = "inference"
    /\ profile_ret.exc = NoExc
    /\ profile_ret.calls[1].ran[1].in_vals[profile.policy.h_idx_].data = <<7>>
    /\ profile_ret.calls[1].ran[1].in_vals[profile.policy.c_idx_].data = <<9>>
    /\ profile.policy.policy_h_in_ = <<4>>
    /\ profile.policy.policy_c_in_ = <<6>>

====
